---- MODULE Spec2Model ----
(***************************************************************************)
(* Model of the AutoXDCC WeeChat backend (weechat/libautoxdcc): the        *)
(* SessionManager with its session store, hook table and global search     *)
(* lock, the WeeChat hooks it arms (print hooks and one-shot timers), the  *)
(* curl transfers spawned by the WebhookSender and the commands written to *)
(* the IRC channel.  Every handler runs to completion (WeeChat is a single *)
(* cooperative event loop), so each handler is one action.                 *)
(*                                                                         *)
(* Time is counted in ticks; a timer holds the ticks left until it is due. *)
(* What the script emits is observed per step: webhooks and channel_out    *)
(* hold the webhooks sent and the channel commands written in the last     *)
(* step.                                                                   *)
(* Log calls (utils.log_info / utils.log_error) only print and are left    *)
(* out.  The free-text "message" field of a webhook payload is left out.   *)
(***************************************************************************)
EXTENDS Integers, Sequences, FiniteSets, TLC

\* ----------------------------------------------------------------- bounds
\* Lines the upstream bot emits in response to one channel command.
MaxLines == 2
\* Records of the collected search session CurationSpec starts from.
MaxRecords == 3
\* The configured session_timeout and hot_list_completion_delay, in ticks
\* of 500 ms.
SessionTimeout == 2
HotDelay == 2
\* The literal settle delay of 500 ms: one tick.
SettleDelay == 1

SessionIds == {"s1", "s2"}
QueryTokens == {"q"}
ChoiceTokens == {"0", "1", "2", "3", "x"}

\* Python's None, one stand-in per type of the value it replaces: an absent
\* dict, an absent string, an absent list of dicts and a failed int().
None == [none |-> TRUE]
NoneStr == "<None>"
NoneList == <<None>>
NoneInt == 0 - 1

\* ------------------------------------------------------ configuration
irc_server_name == "irc.example.org"
irc_search_channel == "#channel"
discord_api_base_url == "http://localhost:8000/"

\* ------------------------------------------------ upstream text lines
\* A decolorized line is represented by what the four regular expressions
\* of irc_parser extract from it.
R1 == [grabs |-> 3, size |-> "700M", filename |-> "A", command |-> "/msg Bot xdcc send #1"]
R2 == [grabs |-> 9, size |-> "1.2G", filename |-> "A", command |-> "/msg Bot xdcc send #2"]
R3 == [grabs |-> 1, size |-> "2G", filename |-> "B", command |-> "/msg Bot xdcc send #3"]
\* As many grabs as R1 under another filename.
R4 == [grabs |-> 3, size |-> "1G", filename |-> "C", command |-> "/msg Bot xdcc send #4"]
\* RESULT_LINE_REGEX takes the filename with (.*?): it may be empty.
R5 == [grabs |-> 2, size |-> "1G", filename |-> "", command |-> "/msg Bot xdcc send #5"]
\* As many grabs as R1 under the same filename, from another pack.
R6 == [grabs |-> 3, size |-> "800M", filename |-> "A", command |-> "/msg Bot xdcc send #6"]
SearchRecords == {R1, R2, R3, R4, R5, R6}
\* The result lines the modelled stream carries.
StreamRecords == {R2, R3}

H1 == [grabs |-> 68, category |-> "TV-X265", size |-> "564M", filename |-> "A"]
H2 == [grabs |-> 12, category |-> "MOVIE", size |-> "2G", filename |-> "B"]
HotItemRecords == {H1, H2}

HeaderText == "TOP GETS | 536 NEW RELEASES"

MkLine(result, end, header, item) ==
    [result |-> result, is_end |-> end, header |-> header, item |-> item]

Lines ==
    {MkLine(None, FALSE, NoneStr, None)}
    \cup {MkLine(r, FALSE, NoneStr, None) : r \in StreamRecords}
    \cup {MkLine(None, TRUE, NoneStr, None), MkLine(R3, TRUE, NoneStr, None)}
    \cup {MkLine(None, FALSE, HeaderText, None)}
    \cup {MkLine(None, FALSE, NoneStr, h) : h \in HotItemRecords}
    \cup {MkLine(None, FALSE, HeaderText, H2)}

parse_search_result_line(line) == line.result
is_end_of_search_results(line) == line.is_end
parse_hot_header_line(line) == line.header
parse_hot_item_line(line) == line.item

\* ------------------------------------------------------------- state
\* ------------------------------------------------ relay transport client
\* bot/weechat_relay_client.py, the client of the bot, and the earlier
\* revision weechat_relay_client.py, which alone has the response mode.
\* Bytes are numbers; a stream is the sequence of bytes the relay sends
\* before it ends the stream.
Passwords == {NoneStr, "", "secret"}
RelayCommands == {"/autoxdcc_service_hot s1", "/autoxdcc_service_download s1 1"}

\* struct.unpack('!I', header)[0]
unpack_I(b) == b[1] * 16777216 + b[2] * 65536 + b[3] * 256 + b[4]

\* struct.pack('!I', n) for the lengths of the modelled frames
pack_I(n) == <<0, 0, n \div 256, n % 256>>

\* A frame as the relay writes it: the length prefix counts itself.
Frame(flag, payload) == pack_I(5 + Len(payload)) \o <<flag>> \o payload

PayloadHi == <<104, 105>>
PayloadOk == <<32, 111, 107, 10>>

InboundStreams ==
    {<<>>,
     <<0, 0, 0>>,
     <<0, 0, 0, 3>>,
     <<0, 0, 0, 4>>,
     <<0, 0, 0, 7, 0>>,
     Frame(0, <<>>),
     Frame(0, PayloadHi),
     Frame(1, PayloadHi),
     Frame(0, PayloadHi) \o Frame(0, PayloadOk),
     Frame(0, PayloadHi) \o Frame(1, PayloadOk),
     Frame(0, PayloadHi) \o <<0, 0, 0, 9, 0, 32>>,
     Frame(0, <<>>) \o Frame(0, PayloadHi) \o Frame(0, PayloadOk)}

\* StreamReader.readexactly(n) on a stream that ends after its bytes
readexactly(stream, n) ==
    IF n < 0
    THEN [ok |-> FALSE, error |-> "ValueError", data |-> <<>>, rest |-> stream]
    ELSE IF Len(stream) < n
    THEN [ok |-> FALSE, error |-> "IncompleteReadError", data |-> <<>>,
          rest |-> <<>>]
    ELSE [ok |-> TRUE, error |-> "", data |-> SubSeq(stream, 1, n),
          rest |-> SubSeq(stream, n + 1, Len(stream))]

\* bytes.decode('utf-8', 'ignore') on bytes that are ASCII or never valid
RECURSIVE decode_ignore(_)
decode_ignore(bs) ==
    IF bs = <<>> THEN <<>>
    ELSE IF Head(bs) < 128 THEN <<Head(bs)>> \o decode_ignore(Tail(bs))
    ELSE decode_ignore(Tail(bs))

Whitespace == {9, 10, 11, 12, 13, 28, 29, 30, 31, 32}

\* str.strip()
RECURSIVE lstrip(_)
lstrip(cs) ==
    IF cs # <<>> /\ Head(cs) \in Whitespace THEN lstrip(Tail(cs)) ELSE cs

RECURSIVE rstrip(_)
rstrip(cs) ==
    IF cs # <<>> /\ cs[Len(cs)] \in Whitespace
    THEN rstrip(SubSeq(cs, 1, Len(cs) - 1)) ELSE cs

strip(cs) == rstrip(lstrip(cs))

\* _receive without the test of the compression byte.
_receive_ignores_flag(stream) ==
    LET header == readexactly(stream, 4)
    IN IF ~ header.ok
       THEN [error |-> header.error, message |-> <<>>, rest |-> header.rest]
       ELSE LET raw == readexactly(header.rest, unpack_I(header.data) - 4)
            IN IF ~ raw.ok
               THEN [error |-> raw.error, message |-> <<>>, rest |-> raw.rest]
               ELSE IF raw.data = <<>>
               THEN [error |-> "IndexError", message |-> <<>>,
                     rest |-> raw.rest]
               ELSE [error |-> "",
                     message |-> strip(decode_ignore(Tail(raw.data))),
                     rest |-> raw.rest]

\* _receive taking the length prefix as the count of the bytes after it.
_receive_prefix_excludes_itself(stream) ==
    LET header == readexactly(stream, 4)
    IN IF ~ header.ok
       THEN [error |-> header.error, message |-> <<>>, rest |-> header.rest]
       ELSE LET raw == readexactly(header.rest, unpack_I(header.data))
            IN IF ~ raw.ok
               THEN [error |-> raw.error, message |-> <<>>, rest |-> raw.rest]
               ELSE IF raw.data = <<>>
               THEN [error |-> "IndexError", message |-> <<>>,
                     rest |-> raw.rest]
               ELSE IF raw.data[1] # 0
               THEN [error |-> "NotImplementedError", message |-> <<>>,
                     rest |-> raw.rest]
               ELSE [error |-> "",
                     message |-> strip(decode_ignore(Tail(raw.data))),
                     rest |-> raw.rest]

\* WeeChatRelayClient._receive on the bytes still to come: what it raises
\* or returns, and the bytes left in the stream.
_receive(stream) ==
    LET header == readexactly(stream, 4)
    IN IF ~ header.ok
       THEN [error |-> header.error, message |-> <<>>, rest |-> header.rest]
       ELSE LET total_length == unpack_I(header.data)
                bytes_to_read == total_length - 4
                raw == readexactly(header.rest, bytes_to_read)
            IN IF ~ raw.ok
               THEN [error |-> raw.error, message |-> <<>>, rest |-> raw.rest]
               ELSE IF raw.data = <<>>
               THEN [error |-> "IndexError", message |-> <<>>,
                     rest |-> raw.rest]
               ELSE IF raw.data[1] # 0
               THEN [error |-> "NotImplementedError", message |-> <<>>,
                     rest |-> raw.rest]
               ELSE [error |-> "",
                     message |-> strip(decode_ignore(Tail(raw.data))),
                     rest |-> raw.rest]

\* What a call did on the network, in order.
Ev(op, text) == [op |-> op, text |-> text]

\* The client object before a call.  transport: "none" (no connection was
\* opened), "open", "lost" (the connection broke: the transport is
\* closing), "closed" (writer.close() was called).
RelayIdle ==
    [pc |-> "idle", client |-> "bot", mode |-> "fire_and_forget",
     password |-> NoneStr, command |-> "", writer |-> FALSE,
     transport |-> "none", inbox |-> <<>>, log |-> <<>>, exc |-> "",
     result |-> NoneList]

\* The bot before any slash command.  ACTIVE_SESSIONS is the dict of
\* bot.py; registered are the ids that were ever put in it; received are
\* the ids of the commands that got to WeeChat, each with its kind;
\* handled is what the webhook endpoint did with the last webhook.
BotIdle ==
    [pc |-> "idle", session_id |-> NoneStr,
     ACTIVE_SESSIONS |-> [x \in {} |-> None],
     registered |-> {}, received |-> [x \in {} |-> None], handled |-> <<>>]

VARIABLES
    sessions,          \* SessionManager._sessions
    hooks,             \* SessionManager._hooks
    is_search_active,  \* SessionManager.is_search_active
    weechat_hooks,     \* hooks armed inside WeeChat, by pointer
    transfers,         \* some curl process spawned by the script is running
    webhooks,          \* webhooks sent in the last step
    channel_out,       \* commands written to the channel in the last step
    stream_budget,     \* lines the upstream bot will still emit
    loaded,            \* the script is loaded
    relay,             \* the bot's relay client and its call in progress
    bot                \* the bot's slash-command handler and ACTIVE_SESSIONS

vars == <<sessions, hooks, is_search_active, weechat_hooks, transfers,
          webhooks, channel_out, stream_budget, loaded, relay, bot>>

\* The state a handler starts from, as one record: nothing emitted yet,
\* together with what WeeChat answers when the handler looks up the server
\* buffer (weechat.info_get("irc_buffer", ...)) and the channel buffer
\* (weechat.buffer_search("irc", ...)): TRUE when the buffer exists.
StateWith(server_buffer_ptr, channel_buffer_ptr) ==
    [sessions |-> sessions, hooks |-> hooks,
     is_search_active |-> is_search_active,
     weechat_hooks |-> weechat_hooks, transfers |-> transfers,
     webhooks |-> <<>>, channel_out |-> <<>>, written_when |-> <<>>,
     server_buffer_ptr |-> server_buffer_ptr,
     channel_buffer_ptr |-> channel_buffer_ptr]

State == StateWith(TRUE, TRUE)

\* The upstream bot answers every command written to the channel with at
\* most MaxLines notices.
Commit(st) ==
    /\ sessions' = st.sessions
    /\ hooks' = st.hooks
    /\ is_search_active' = st.is_search_active
    /\ weechat_hooks' = st.weechat_hooks
    /\ transfers' = st.transfers
    /\ webhooks' = st.webhooks
    /\ channel_out' = st.channel_out

AfterHandler(st) ==
    /\ Commit(st)
    /\ stream_budget' = IF st.channel_out # <<>> THEN MaxLines ELSE stream_budget
    /\ UNCHANGED <<loaded, relay, bot>>

\* --------------------------------------------------- dict helpers
Get(d, k) == IF k \in DOMAIN d THEN d[k] ELSE None
Put(d, k, v) == [x \in (DOMAIN d) \cup {k} |-> IF x = k THEN v ELSE d[x]]
Pop(d, k) == [x \in (DOMAIN d) \ {k} |-> d[x]]
EmptyDict == [x \in {} |-> None]

Init ==
    /\ sessions = EmptyDict
    /\ hooks = EmptyDict
    /\ is_search_active = FALSE
    /\ weechat_hooks = EmptyDict
    /\ transfers = FALSE
    /\ webhooks = <<>>
    /\ channel_out = <<>>
    /\ stream_budget = 0
    /\ loaded = TRUE
    /\ relay = RelayIdle
    /\ bot = BotIdle

\* ------------------------------------------------------ WeeChat API
\* A pointer is written <<callback data, kind of hook, k>>; a new hook gets
\* the smallest k that makes a pointer neither armed nor still recorded in
\* the hook table, so that no two hooks alive at a time share a pointer.
TablePtrs(st) ==
    UNION {{st.hooks[i][n] : n \in DOMAIN st.hooks[i]} : i \in DOMAIN st.hooks}

UsedPtrs(st) == (DOMAIN st.weechat_hooks) \cup TablePtrs(st)

NewPtr(st, data, kind) ==
    LET used == {p[3] : p \in {q \in UsedPtrs(st) : q[1] = data /\ q[2] = kind}}
    IN <<data, kind,
         CHOOSE k \in 0..Cardinality(used) :
            k \notin used /\ \A j \in 0..(k - 1) : j \in used>>

\* weechat.hook_print(buffer, tags, "", 0, callback, data), pointer ptr
hook_print(st, ptr, callback, data) ==
    [st EXCEPT !.weechat_hooks =
        Put(@, ptr, [type |-> "print", callback |-> callback,
                     data |-> data, remaining |-> 0])]

\* weechat.hook_timer(interval, 0, 1, callback, data), pointer ptr
hook_timer(st, ptr, interval, callback, data) ==
    [st EXCEPT !.weechat_hooks =
        Put(@, ptr, [type |-> "timer", callback |-> callback,
                     data |-> data, remaining |-> interval])]

\* weechat.unhook(ptr) leaving the hook armed.
unhook_ignored(st, ptr) == st

\* weechat.unhook(ptr): removing a hook that is not armed does nothing
unhook(st, ptr) ==
    [st EXCEPT !.weechat_hooks = Pop(@, ptr)]

\* weechat.command(channel_buffer_ptr, text).  written_when notes, for
\* every command the handler writes, what the script had done by then: the
\* lock, the ids in the store and the hooks armed.
command(st, text) ==
    [st EXCEPT !.channel_out = Append(@, text),
               !.written_when =
                  Append(@, [is_search_active |-> st.is_search_active,
                             sessions |-> DOMAIN st.sessions,
                             armed |-> DOMAIN st.weechat_hooks])]

\* weechat.hook_process(curl ..., 12000, "global_http_post_cb", session_id)
hook_process(st, endpoint, payload, session_id) ==
    [st EXCEPT !.transfers = TRUE,
               !.webhooks = Append(@, [endpoint |-> endpoint,
                                       payload |-> payload])]

\* ------------------------------------------------- webhook_sender.py
\* _send_webhook spawning the transfer twice.
_send_webhook_twice(st, endpoint, payload, session_id) ==
    hook_process(hook_process(st, endpoint, payload, session_id),
                 endpoint, payload, session_id)

_send_webhook(st, endpoint, payload, session_id) ==
    IF discord_api_base_url = ""
    THEN st
    ELSE hook_process(st, endpoint, payload, session_id)

send_search_results(st, session_id, status, choices) ==
    _send_webhook(st, "search_results",
        [session_id |-> session_id, status |-> status, choices |-> choices],
        session_id)

send_hot_results(st, session_id, status, summary, items) ==
    _send_webhook(st, "hot_results",
        [session_id |-> session_id, status |-> status,
         summary |-> summary, items |-> items],
        session_id)

send_download_status(st, session_id, status) ==
    _send_webhook(st, "download_status",
        [session_id |-> session_id, status |-> status], session_id)

send_session_expired(st, session_id) ==
    _send_webhook(st, "session_expired",
        [session_id |-> session_id, status |-> "expired"], session_id)

send_rejection(st, session_id) ==
    _send_webhook(st, "search_results",
        [session_id |-> session_id, status |-> "rejected_busy"], session_id)

send_error(st, session_id) ==
    _send_webhook(st, "search_results",
        [session_id |-> session_id, status |-> "error"], session_id)

\* ---------------------------------------------------------- models.py
XDCCSession(session_id, query, session_type) ==
    [id |-> session_id, query |-> query, type |-> session_type,
     search_results |-> <<>>, choices |-> <<>>,
     hot_summary |-> "", hot_items |-> <<>>]

add_search_result(session, result) ==
    [session EXCEPT !.search_results = Append(@, result)]

\* add_hot_item putting the new item in front of the list.
add_hot_item_in_front(session, item) ==
    [session EXCEPT !.hot_items = <<item>> \o @]

add_hot_item(session, item) ==
    [session EXCEPT !.hot_items = Append(@, item)]

\* list.sort(key=grabs, reverse=True): stable, descending by grabs
\* A sort that is not stable: a record goes in front of those with as
\* many grabs.
RECURSIVE InsertByGrabs_ties_in_front(_, _)
InsertByGrabs_ties_in_front(sorted, r) ==
    IF sorted = <<>> THEN <<r>>
    ELSE IF Head(sorted).grabs > r.grabs
         THEN <<Head(sorted)>> \o InsertByGrabs_ties_in_front(Tail(sorted), r)
         ELSE <<r>> \o sorted

RECURSIVE InsertByGrabs(_, _)
InsertByGrabs(sorted, r) ==
    IF sorted = <<>> THEN <<r>>
    ELSE IF Head(sorted).grabs >= r.grabs
         THEN <<Head(sorted)>> \o InsertByGrabs(Tail(sorted), r)
         ELSE <<r>> \o sorted

\* The sort left out: the records stay in arrival order.
SortByGrabs_arrival_order(rs) == rs

RECURSIVE SortByGrabs(_)
SortByGrabs(rs) ==
    IF rs = <<>> THEN <<>>
    ELSE InsertByGrabs(SortByGrabs(SubSeq(rs, 1, Len(rs) - 1)), rs[Len(rs)])

\* list(dict.fromkeys(r['filename'] for r in rs)): first occurrences, in order
RECURSIVE UniqueFilenames(_)
UniqueFilenames(rs) ==
    IF rs = <<>> THEN <<>>
    ELSE LET init == UniqueFilenames(SubSeq(rs, 1, Len(rs) - 1))
             f == rs[Len(rs)].filename
         IN IF \E i \in 1..Len(init) : init[i] = f THEN init
            ELSE Append(init, f)

\* next(r for r in rs if r['filename'] == filename), None when there is none
FirstWithFilename(rs, filename) ==
    IF \E i \in 1..Len(rs) : rs[i].filename = filename
    THEN rs[CHOOSE i \in 1..Len(rs) :
                /\ rs[i].filename = filename
                /\ \A j \in 1..(i - 1) : rs[j].filename # filename]
    ELSE None

generate_choices(session) ==
    LET sorted == SortByGrabs(session.search_results)
        unique_filenames == UniqueFilenames(sorted)
        new_choices ==
            [i \in 1..Len(unique_filenames) |->
                [choice_id |-> i, filename |-> unique_filenames[i],
                 size |-> FirstWithFilename(sorted, unique_filenames[i]).size]]
    IN [session EXCEPT !.search_results = sorted,
                       !.choices = @ \o new_choices]

\* int(choice_id); None stands for ValueError
ParseInt(s) ==
    CASE s = "0" -> 0
      [] s = "1" -> 1
      [] s = "2" -> 2
      [] s = "3" -> 3
      [] OTHER -> NoneInt

\* Returns the session (its records re-sorted in place when the choice is
\* found), the command and the filename.
get_download_command(session, choice_id) ==
    LET choice_id_int == ParseInt(choice_id)
        nothing == [session |-> session, command |-> NoneStr,
                    filename |-> NoneStr]
    IN IF choice_id_int = NoneInt THEN nothing
       ELSE IF ~ \E i \in 1..Len(session.choices) :
                    session.choices[i].choice_id = choice_id_int
       THEN nothing
       ELSE LET k == CHOOSE i \in 1..Len(session.choices) :
                        /\ session.choices[i].choice_id = choice_id_int
                        /\ \A j \in 1..(i - 1) :
                              session.choices[j].choice_id # choice_id_int
                target_filename == session.choices[k].filename
                sorted == SortByGrabs(session.search_results)
                target_result == FirstWithFilename(sorted, target_filename)
            IN [session |-> [session EXCEPT !.search_results = sorted],
                command |-> IF target_result # None
                            THEN target_result.command ELSE NoneStr,
                filename |-> target_filename]

\* Python truthiness of an optional string
Truthy(v) == v # NoneStr /\ v # ""

\* -------------------------------------------------- session_manager.py
\* release_search_lock that leaves the flag as it is.
release_search_lock_skipped(st) == st

release_search_lock(st) ==
    IF st.is_search_active THEN [st EXCEPT !.is_search_active = FALSE] ELSE st

\* for hook_ptr in self._hooks[session_id].values(): weechat.unhook(hook_ptr)
UnhookAll(st, ptrs) ==
    [st EXCEPT !.weechat_hooks = [p \in (DOMAIN @) \ ptrs |-> @[p]]]

\* end_session that never releases the lock, whatever release_lock says.
end_session_keeps_lock(st, session_id, release_lock) ==
    LET st1 == IF session_id \in DOMAIN st.hooks
               THEN [UnhookAll(st, {st.hooks[session_id][n] :
                                        n \in DOMAIN st.hooks[session_id]})
                        EXCEPT !.hooks = Pop(@, session_id)]
               ELSE st
    IN IF session_id \in DOMAIN st1.sessions
       THEN [st1 EXCEPT !.sessions = Pop(@, session_id)]
       ELSE st1

\* end_session that forgets the session's hooks without unhooking them.
end_session_keeps_hooks(st, session_id, release_lock) ==
    LET st1 == IF session_id \in DOMAIN st.hooks
               THEN [st EXCEPT !.hooks = Pop(@, session_id)]
               ELSE st
        st2 == IF session_id \in DOMAIN st1.sessions
               THEN [st1 EXCEPT !.sessions = Pop(@, session_id)]
               ELSE st1
    IN IF release_lock THEN release_search_lock(st2) ELSE st2

\* end_session releasing the lock whatever release_lock says.
end_session_always_releases(st, session_id, release_lock) ==
    LET st1 == IF session_id \in DOMAIN st.hooks
               THEN [UnhookAll(st, {st.hooks[session_id][n] :
                                        n \in DOMAIN st.hooks[session_id]})
                        EXCEPT !.hooks = Pop(@, session_id)]
               ELSE st
        st2 == IF session_id \in DOMAIN st1.sessions
               THEN [st1 EXCEPT !.sessions = Pop(@, session_id)]
               ELSE st1
    IN release_search_lock(st2)

end_session(st, session_id, release_lock) ==
    LET st1 == IF session_id \in DOMAIN st.hooks
               THEN [UnhookAll(st, {st.hooks[session_id][n] :
                                        n \in DOMAIN st.hooks[session_id]})
                        EXCEPT !.hooks = Pop(@, session_id)]
               ELSE st
        st2 == IF session_id \in DOMAIN st1.sessions
               THEN [st1 EXCEPT !.sessions = Pop(@, session_id)]
               ELSE st1
    IN IF release_lock THEN release_search_lock(st2) ELSE st2

\* start_new_session writing the command before it hooks the prints.
start_new_session_command_first(st, session_id, query, session_type) ==
    LET st1 == [st EXCEPT !.sessions =
                   Put(@, session_id, XDCCSession(session_id, query, session_type))]
    IN IF ~ st1.server_buffer_ptr
       THEN send_error(end_session(st1, session_id, TRUE), session_id)
       ELSE IF ~ st1.channel_buffer_ptr
       THEN send_error(end_session(st1, session_id, TRUE), session_id)
       ELSE
         LET st0 == command(st1, IF session_type = "search"
                                 THEN <<"!search">> \o query ELSE <<"!hot">>)
             p1 == NewPtr(st0, session_id, "print_hook")
             st2 == [hook_print(st0, p1, "global_print_cb", session_id)
                        EXCEPT !.hooks = Put(@, session_id,
                                    [n \in {"print_hook"} |-> p1])]
         IN IF session_type = "search"
            THEN LET p2 == NewPtr(st2, session_id, "expiry_timer")
                 IN [hook_timer(st2, p2, SessionTimeout,
                                "global_expiry_cb", session_id)
                        EXCEPT !.hooks[session_id] = Put(@, "expiry_timer", p2)]
            ELSE LET p2 == NewPtr(st2, session_id, "completion_timer")
                 IN [hook_timer(st2, p2, HotDelay,
                                 "global_final_processing_cb", session_id)
                        EXCEPT !.hooks[session_id] =
                                    Put(@, "completion_timer", p2)]

start_new_session(st, session_id, query, session_type) ==
    LET st1 == [st EXCEPT !.sessions =
                   Put(@, session_id, XDCCSession(session_id, query, session_type))]
    IN IF ~ st1.server_buffer_ptr
       THEN send_error(end_session(st1, session_id, TRUE), session_id)
       ELSE IF ~ st1.channel_buffer_ptr
       THEN send_error(end_session(st1, session_id, TRUE), session_id)
       ELSE
         LET p1 == NewPtr(st1, session_id, "print_hook")
             st2 == [hook_print(st1, p1, "global_print_cb", session_id)
                        EXCEPT !.hooks = Put(@, session_id,
                                    [n \in {"print_hook"} |-> p1])]
         IN IF session_type = "search"
            THEN LET st3 == command(st2, <<"!search">> \o query)
                     p2 == NewPtr(st3, session_id, "expiry_timer")
                 IN [hook_timer(st3, p2, SessionTimeout,
                                "global_expiry_cb", session_id)
                        EXCEPT !.hooks[session_id] = Put(@, "expiry_timer", p2)]
            ELSE IF session_type = "hot"
            THEN LET p2 == NewPtr(st2, session_id, "completion_timer")
                     st3 == [hook_timer(st2, p2, HotDelay,
                                 "global_final_processing_cb", session_id)
                                EXCEPT !.hooks[session_id] =
                                    Put(@, "completion_timer", p2)]
                 IN command(st3, <<"!hot">>)
            ELSE st2

\* The end-marker branch leaving the print hook armed.
on_end_of_results_keeps_print_hook(st, session_id) ==
    LET p == NewPtr(st, session_id, "processing_timer")
    IN [hook_timer(st, p, SettleDelay,
                   "global_final_processing_cb", session_id)
          EXCEPT !.hooks[session_id] = Put(@, "processing_timer", p)]

\* The end-marker branch: the print hook goes, the settle timer is armed.
on_end_of_results(st, session_id) ==
    LET st1 == IF "print_hook" \in DOMAIN st.hooks[session_id]
               THEN [unhook(st, st.hooks[session_id]["print_hook"])
                       EXCEPT !.hooks[session_id] = Pop(@, "print_hook")]
               ELSE st
        p == NewPtr(st1, session_id, "processing_timer")
    IN [hook_timer(st1, p, SettleDelay,
                   "global_final_processing_cb", session_id)
          EXCEPT !.hooks[session_id] = Put(@, "processing_timer", p)]

\* The matched-line branch leaving the running completion timer alone.
rearm_completion_timer_skipped(st, session_id) == st

\* Arming the new completion timer without unhooking the old one.
rearm_completion_timer_leaks(st, session_id) ==
    LET p == NewPtr([st EXCEPT !.hooks[session_id] =
                                  Pop(@, "completion_timer")],
                    session_id, "completion_timer")
    IN [hook_timer(st, p, HotDelay,
                   "global_final_processing_cb", session_id)
          EXCEPT !.hooks[session_id]["completion_timer"] = p]

\* The matched-line branch of a hot session: the completion timer is
\* unhooked and armed again for the whole delay.
rearm_completion_timer(st, session_id) ==
    LET st1 == unhook(st, st.hooks[session_id]["completion_timer"])
        p == NewPtr([st1 EXCEPT !.hooks[session_id] =
                                   Pop(@, "completion_timer")],
                    session_id, "completion_timer")
    IN [hook_timer(st1, p, HotDelay,
                   "global_final_processing_cb", session_id)
          EXCEPT !.hooks[session_id]["completion_timer"] = p]

\* handle_print_callback re-arming the completion timer on every line.
handle_print_callback_rearms_always(st, session_id, line) ==
    LET session == Get(st.sessions, session_id)
    IN IF session = None THEN st
       ELSE IF session.type = "search"
       THEN LET result_dict == parse_search_result_line(line)
                st1 == IF result_dict # None
                       THEN [st EXCEPT !.sessions[session_id] =
                                          add_search_result(@, result_dict)]
                       ELSE st
            IN IF is_end_of_search_results(line)
               THEN on_end_of_results(st1, session_id)
               ELSE st1
       ELSE IF session.type = "hot"
       THEN LET header_summary == parse_hot_header_line(line)
                hot_item_dict == parse_hot_item_line(line)
                st1 == IF header_summary # NoneStr
                       THEN [st EXCEPT !.sessions[session_id].hot_summary =
                                          header_summary]
                       ELSE st
                st2 == IF hot_item_dict # None
                       THEN [st1 EXCEPT !.sessions[session_id] =
                                          add_hot_item(@, hot_item_dict)]
                       ELSE st1
            IN IF "completion_timer" \in DOMAIN st2.hooks[session_id]
               THEN rearm_completion_timer(st2, session_id)
               ELSE st2
       ELSE st

\* handle_print_callback with `elif hot_item_dict`: a line that matched the
\* header is not looked at as an item.
handle_print_callback_first_match_only(st, session_id, line) ==
    LET session == Get(st.sessions, session_id)
    IN IF session = None THEN st
       ELSE IF session.type = "search"
       THEN LET result_dict == parse_search_result_line(line)
                st1 == IF result_dict # None
                       THEN [st EXCEPT !.sessions[session_id] =
                                          add_search_result(@, result_dict)]
                       ELSE st
            IN IF is_end_of_search_results(line)
               THEN on_end_of_results(st1, session_id)
               ELSE st1
       ELSE IF session.type = "hot"
       THEN LET header_summary == parse_hot_header_line(line)
                hot_item_dict == parse_hot_item_line(line)
                st2 == IF header_summary # NoneStr
                       THEN [st EXCEPT !.sessions[session_id].hot_summary =
                                          header_summary]
                       ELSE IF hot_item_dict # None
                       THEN [st EXCEPT !.sessions[session_id] =
                                          add_hot_item(@, hot_item_dict)]
                       ELSE st
                line_matched == header_summary # NoneStr \/ hot_item_dict # None
            IN IF line_matched /\ "completion_timer" \in DOMAIN st2.hooks[session_id]
               THEN rearm_completion_timer(st2, session_id)
               ELSE st2
       ELSE st

handle_print_callback(st, session_id, line) ==
    LET session == Get(st.sessions, session_id)
    IN IF session = None THEN st
       ELSE IF session.type = "search"
       THEN LET result_dict == parse_search_result_line(line)
                st1 == IF result_dict # None
                       THEN [st EXCEPT !.sessions[session_id] =
                                          add_search_result(@, result_dict)]
                       ELSE st
            IN IF is_end_of_search_results(line)
               THEN on_end_of_results(st1, session_id)
               ELSE st1
       ELSE IF session.type = "hot"
       THEN LET header_summary == parse_hot_header_line(line)
                hot_item_dict == parse_hot_item_line(line)
                st1 == IF header_summary # NoneStr
                       THEN [st EXCEPT !.sessions[session_id].hot_summary =
                                          header_summary]
                       ELSE st
                st2 == IF hot_item_dict # None
                       THEN [st1 EXCEPT !.sessions[session_id] =
                                          add_hot_item(@, hot_item_dict)]
                       ELSE st1
                line_matched == header_summary # NoneStr \/ hot_item_dict # None
            IN IF line_matched /\ "completion_timer" \in DOMAIN st2.hooks[session_id]
               THEN rearm_completion_timer(st2, session_id)
               ELSE st2
       ELSE st

\* Forgetting the handle without unhooking it.
PopAndUnhook_pop_only(st, session_id, name) ==
    IF session_id \in DOMAIN st.hooks /\ name \in DOMAIN st.hooks[session_id]
    THEN [st EXCEPT !.hooks[session_id] = Pop(@, name)]
    ELSE st

\* if self._hooks.get(session_id, {}).get(name): weechat.unhook(...pop(name))
PopAndUnhook(st, session_id, name) ==
    IF session_id \in DOMAIN st.hooks /\ name \in DOMAIN st.hooks[session_id]
    THEN [unhook(st, st.hooks[session_id][name])
            EXCEPT !.hooks[session_id] = Pop(@, name)]
    ELSE st

handle_final_processing(st, session_id) ==
    LET session == Get(st.sessions, session_id)
    IN IF session = None THEN release_search_lock(st)
       ELSE
         LET st1 == PopAndUnhook(PopAndUnhook(st, session_id, "processing_timer"),
                                 session_id, "completion_timer")
             st2 ==
               IF session.type = "search"
               THEN LET curated == generate_choices(session)
                        st1a == [st1 EXCEPT !.sessions[session_id] = curated]
                    IN IF curated.choices = <<>>
                       THEN end_session(
                              send_search_results(st1a, session.id, "no_results",
                                                  NoneList),
                              session_id, FALSE)
                       ELSE send_search_results(st1a, session.id, "success",
                                                curated.choices)
               ELSE IF session.type = "hot"
               THEN LET st1b ==
                          IF session.hot_items = <<>>
                          THEN send_hot_results(st1, session.id, "no_results",
                                                NoneStr, NoneList)
                          ELSE send_hot_results(st1, session.id, "success",
                                                session.hot_summary,
                                                session.hot_items)
                    IN end_session(st1b, session_id, FALSE)
               ELSE st1
         IN release_search_lock(st2)

\* handle_expiry notifying without ending the session.
handle_expiry_keeps_session(st, session_id) ==
    IF session_id \in DOMAIN st.sessions
    THEN send_session_expired(st, session_id)
    ELSE st

handle_expiry(st, session_id) ==
    IF session_id \in DOMAIN st.sessions
    THEN end_session(send_session_expired(st, session_id), session_id, FALSE)
    ELSE st

\* handle_http_post_callback rolling the session back when curl failed.
handle_http_post_callback_rolls_back(st, session_id, return_code) ==
    IF return_code # 0 THEN end_session(st, session_id, TRUE) ELSE st

\* Only logs the outcome of the transfer.
handle_http_post_callback(st, session_id, return_code) == st

RECURSIVE EndAll(_, _)
EndAll(st, ids) ==
    IF ids = {} THEN st
    ELSE LET i == CHOOSE x \in ids : TRUE
         IN EndAll(end_session(st, i, FALSE), ids \ {i})

\* shutdown ending the sessions and leaving the lock as it is.
shutdown_without_release(st) == EndAll(st, DOMAIN st.sessions)

shutdown(st) == release_search_lock(EndAll(st, DOMAIN st.sessions))

\* shlex.split(args); ok is FALSE for ValueError (unbalanced quoting)
shlex_split(args) ==
    IF args.balanced THEN [ok |-> TRUE, parts |-> args.tokens]
    ELSE [ok |-> FALSE, parts |-> <<>>]

\* service_search_cb without the busy test: every search is started.
service_search_cb_unguarded(st, args) ==
    LET split == shlex_split(args)
        parts == split.parts
    IN IF ~ split.ok \/ parts = <<>> THEN st
       ELSE start_new_session([st EXCEPT !.is_search_active = TRUE],
                              parts[1], Tail(parts), "search")

\* " ".join(parts[1:]) is kept as the sequence of the joined tokens.
service_search_cb(st, args) ==
    LET split == shlex_split(args)
        parts == split.parts
    IN IF ~ split.ok \/ parts = <<>> THEN st
       ELSE LET session_id == parts[1]
                query == Tail(parts)
            IN IF st.is_search_active
               THEN send_rejection(st, session_id)
               ELSE start_new_session([st EXCEPT !.is_search_active = TRUE],
                                      session_id, query, "search")

\* service_hot_cb whose busy branch also gives the lock up.
service_hot_cb_reject_releases(st, args) ==
    LET split == shlex_split(args)
        parts == split.parts
    IN IF ~ split.ok \/ parts = <<>> THEN st
       ELSE IF st.is_search_active
            THEN release_search_lock(send_rejection(st, parts[1]))
            ELSE start_new_session([st EXCEPT !.is_search_active = TRUE],
                                   parts[1], <<>>, "hot")

service_hot_cb(st, args) ==
    LET split == shlex_split(args)
        parts == split.parts
    IN IF ~ split.ok \/ parts = <<>> THEN st
       ELSE LET session_id == parts[1]
            IN IF st.is_search_active
               THEN send_rejection(st, session_id)
               ELSE start_new_session([st EXCEPT !.is_search_active = TRUE],
                                      session_id, <<>>, "hot")

\* service_download_cb ending the session on an invalid choice.
service_download_cb_invalid_ends(st, args) ==
    LET split == shlex_split(args)
        parts == split.parts
    IN IF ~ split.ok \/ Len(parts) < 2 THEN st
       ELSE LET session_id == parts[1]
                choice_id_str == parts[2]
                session == Get(st.sessions, session_id)
            IN IF session = None \/ session.type # "search"
               THEN send_download_status(st, session_id, "error")
               ELSE LET got == get_download_command(session, choice_id_str)
                        st1 == [st EXCEPT !.sessions[session_id] = got.session]
                    IN IF Truthy(got.command) /\ Truthy(got.filename)
                       THEN IF st1.channel_buffer_ptr
                            THEN end_session(
                                   send_download_status(
                                     command(st1, <<got.command>>),
                                     session_id, "success"),
                                   session_id, FALSE)
                            ELSE send_download_status(st1, session_id, "error")
                       ELSE end_session(
                              send_download_status(st1, session_id, "error"),
                              session_id, FALSE)

service_download_cb(st, args) ==
    LET split == shlex_split(args)
        parts == split.parts
    IN IF ~ split.ok \/ Len(parts) < 2 THEN st
       ELSE LET session_id == parts[1]
                choice_id_str == parts[2]
                session == Get(st.sessions, session_id)
            IN IF session = None \/ session.type # "search"
               THEN send_download_status(st, session_id, "error")
               ELSE LET got == get_download_command(session, choice_id_str)
                        st1 == [st EXCEPT !.sessions[session_id] = got.session]
                    IN IF Truthy(got.command) /\ Truthy(got.filename)
                       THEN IF st1.channel_buffer_ptr
                            THEN end_session(
                                   send_download_status(
                                     command(st1, <<got.command>>),
                                     session_id, "success"),
                                   session_id, FALSE)
                            ELSE send_download_status(st1, session_id, "error")
                       ELSE send_download_status(st1, session_id, "error")

\* ------------------------------------------------------------ inputs
MkArgs(tokens) == [tokens |-> tokens, balanced |-> TRUE]
Unbalanced == [tokens |-> <<>>, balanced |-> FALSE]

SearchArgs ==
    {Unbalanced, MkArgs(<<>>)}
    \cup {MkArgs(<<i, q>>) : i \in SessionIds, q \in QueryTokens}

HotArgs == {Unbalanced, MkArgs(<<>>)} \cup {MkArgs(<<i>>) : i \in SessionIds}

DownloadArgs ==
    {Unbalanced, MkArgs(<<>>)}
    \cup {MkArgs(<<i>>) : i \in SessionIds}
    \cup {MkArgs(<<i, c>>) : i \in SessionIds, c \in ChoiceTokens}

\* Session ids are supplied by the caller and are unique while live: a
\* creation command that will be accepted names no session in the store.
UniqueWhileLive(args) ==
    (args.balanced /\ args.tokens # <<>> /\ ~ is_search_active)
        => args.tokens[1] \notin DOMAIN sessions

\* What WeeChat can answer to the two buffer lookups of start_new_session,
\* <<server buffer found, channel buffer found>>; the channel buffer is only
\* looked up once the server buffer was found.  A command that never gets to
\* start_new_session asks nothing.
BufferAnswers == {<<TRUE, TRUE>>, <<FALSE, TRUE>>, <<TRUE, FALSE>>}

CreationLookups(args) ==
    IF args.balanced /\ args.tokens # <<>> /\ ~ is_search_active
    THEN BufferAnswers
    ELSE {<<TRUE, TRUE>>}

\* service_download_cb looks the channel buffer up only for a session it
\* finds in the store.
DownloadLookups(args) ==
    IF args.balanced /\ Len(args.tokens) >= 2
       /\ args.tokens[1] \in DOMAIN sessions
    THEN BOOLEAN
    ELSE {TRUE}

\* ----------------------------------------------------------- actions
\* Every handler is split into the state it yields (...Result) and the
\* condition under which the event loop runs it (...Enabled).
SearchResult(args, server_buffer_ptr, channel_buffer_ptr) ==
    service_search_cb(StateWith(server_buffer_ptr, channel_buffer_ptr), args)

CmdEnabled(args) == loaded /\ UniqueWhileLive(args)

CmdSearch(args, server_buffer_ptr, channel_buffer_ptr) ==
    /\ CmdEnabled(args)
    /\ AfterHandler(SearchResult(args, server_buffer_ptr, channel_buffer_ptr))

HotResult(args, server_buffer_ptr, channel_buffer_ptr) ==
    service_hot_cb(StateWith(server_buffer_ptr, channel_buffer_ptr), args)

CmdHot(args, server_buffer_ptr, channel_buffer_ptr) ==
    /\ CmdEnabled(args)
    /\ AfterHandler(HotResult(args, server_buffer_ptr, channel_buffer_ptr))

DownloadResult(args, channel_buffer_ptr) ==
    service_download_cb(StateWith(TRUE, channel_buffer_ptr), args)

CmdDownloadEnabled == loaded

CmdDownload(args, channel_buffer_ptr) ==
    /\ CmdDownloadEnabled
    /\ AfterHandler(DownloadResult(args, channel_buffer_ptr))

PrintHookPtrs(st) ==
    {p \in DOMAIN st.weechat_hooks : st.weechat_hooks[p].type = "print"}

\* WeeChat calls global_print_cb once for every print hook on the buffer.
RECURSIVE DeliverLine(_, _, _)
DeliverLine(st, ptrs, line) ==
    IF ptrs = {} THEN st
    ELSE LET p == CHOOSE x \in ptrs : TRUE
             st1 == IF p \in DOMAIN st.weechat_hooks
                    THEN handle_print_callback(st, st.weechat_hooks[p].data, line)
                    ELSE st
         IN DeliverLine(st1, ptrs \ {p}, line)

PrintLineResult(line) == DeliverLine(State, PrintHookPtrs(State), line)

PrintLineEnabled == loaded /\ stream_budget > 0 /\ PrintHookPtrs(State) # {}

PrintLine(line) ==
    /\ PrintLineEnabled
    /\ stream_budget' = stream_budget - 1
    /\ Commit(PrintLineResult(line))
    /\ UNCHANGED <<loaded, relay, bot>>

TimerPtrs == {p \in DOMAIN weechat_hooks : weechat_hooks[p].type = "timer"}

Tick ==
    /\ loaded
    /\ TimerPtrs # {}
    /\ \A p \in TimerPtrs : weechat_hooks[p].remaining > 0
    /\ weechat_hooks' =
         [p \in DOMAIN weechat_hooks |->
            IF weechat_hooks[p].type = "timer"
            THEN [weechat_hooks[p] EXCEPT !.remaining = @ - 1]
            ELSE weechat_hooks[p]]
    /\ webhooks' = <<>>
    /\ channel_out' = <<>>
    /\ UNCHANGED <<sessions, hooks, is_search_active, transfers,
                   stream_budget, loaded, relay, bot>>

\* A due one-shot timer runs its callback and is then removed by WeeChat.
RunTimerCallback(st, callback, data) ==
    IF callback = "global_final_processing_cb"
    THEN handle_final_processing(st, data)
    ELSE IF callback = "global_expiry_cb"
    THEN handle_expiry(st, data)
    ELSE st

FireTimerResult(p) ==
    unhook(RunTimerCallback(State, weechat_hooks[p].callback,
                            weechat_hooks[p].data), p)

FireTimerEnabled(p) ==
    /\ loaded
    /\ p \in TimerPtrs
    /\ weechat_hooks[p].remaining = 0

FireTimer(p) ==
    /\ FireTimerEnabled(p)
    /\ AfterHandler(FireTimerResult(p))

\* A curl process ends; WeeChat calls global_http_post_cb with its data.
\* others_running: another curl process of the script is still running.
HttpPostResult(session_id, return_code, others_running) ==
    handle_http_post_callback([State EXCEPT !.transfers = others_running],
                              session_id, return_code)

HttpPostEnabled == loaded /\ transfers

HttpPostDone(session_id, return_code, others_running) ==
    /\ HttpPostEnabled
    /\ AfterHandler(HttpPostResult(session_id, return_code, others_running))

\* shutdown_cb: the script is unloaded; WeeChat then removes whatever hooks
\* and processes of the script are left.
Shutdown ==
    /\ loaded
    /\ loaded' = FALSE
    /\ Commit([shutdown(State) EXCEPT !.weechat_hooks = EmptyDict,
                                      !.transfers = FALSE])
    /\ UNCHANGED <<stream_budget, relay, bot>>

Next ==
    \/ \E args \in SearchArgs : \E b \in CreationLookups(args) :
          CmdSearch(args, b[1], b[2])
    \/ \E args \in HotArgs : \E b \in CreationLookups(args) :
          CmdHot(args, b[1], b[2])
    \/ \E args \in DownloadArgs : \E cb \in DownloadLookups(args) :
          CmdDownload(args, cb)
    \/ \E line \in Lines : PrintLine(line)
    \/ Tick
    \/ \E p \in DOMAIN weechat_hooks : FireTimer(p)
    \/ \E i \in SessionIds, rc \in {0, 7}, more \in BOOLEAN :
          HttpPostDone(i, rc, more)
    \/ Shutdown

Spec == Init /\ [][Next]_vars

\* WeeChat's event loop keeps running: time passes and a due timer fires.
FairSpec ==
    /\ Spec
    /\ WF_vars(Tick)
    /\ WF_vars(\E p \in DOMAIN weechat_hooks : FireTimer(p))

TypeOK ==
    /\ DOMAIN sessions \subseteq SessionIds
    /\ DOMAIN hooks \subseteq DOMAIN sessions
    /\ is_search_active \in BOOLEAN
    /\ stream_budget \in 0..MaxLines
    /\ transfers \in BOOLEAN

\* ------------------------------------------------ relay client: a call
\* asyncio.open_connection(host, port); ok: the relay accepts
_connect(r, ok) ==
    IF ok
    THEN [r EXCEPT !.writer = TRUE, !.transport = "open",
                   !.log = Append(@, Ev("connect", <<>>))]
    ELSE [r EXCEPT !.exc = "OSError",
                   !.log = Append(@, Ev("connect_failed", <<>>))]

\* writer.write(command.encode('utf-8') + b'\n'); await writer.drain().
\* drain raises when the connection is lost, and the transport of a lost
\* connection is closing.
_send(r, text, ok) ==
    IF ok
    THEN [r EXCEPT !.log = Append(@, Ev("send", text))]
    ELSE [r EXCEPT !.exc = "ConnectionResetError", !.transport = "lost",
                   !.log = Append(@, Ev("send_failed", text))]

\* await self._receive() on the client: reset is the connection breaking
\* during the read.
receive_frame(r, reset) ==
    IF reset
    THEN [r EXCEPT !.exc = "ConnectionResetError", !.transport = "lost",
                   !.log = Append(@, Ev("receive_failed", <<>>))]
    ELSE LET got == _receive(r.inbox)
         IN IF got.error # ""
            THEN [r EXCEPT !.exc = got.error, !.inbox = got.rest,
                           !.log = Append(@, Ev("receive_failed", <<>>))]
            ELSE [r EXCEPT !.inbox = got.rest, !.result = got.message,
                           !.log = Append(@, Ev("receive", got.message))]

\* _close of the bot's client without the quit.
_close_without_quit(r, quit_ok) ==
    IF r.writer /\ r.transport = "open"
    THEN [r EXCEPT !.transport = "closed",
                   !.log = Append(@, Ev("close", <<>>))]
    ELSE r

\* _close of the bot's client: `if self.writer and not
\* self.writer.is_closing()`, then quit is sent, any error of the send is
\* swallowed, and writer.close() runs in the finally.
_close(r, quit_ok) ==
    IF r.writer /\ r.transport = "open"
    THEN LET r1 == _send(r, <<"quit">>, quit_ok)
         IN [r1 EXCEPT !.exc = r.exc, !.transport = "closed",
                       !.log = Append(@, Ev("close", <<>>))]
    ELSE r

\* _close of the earlier revision: writer.close() and no quit.
_close_earlier(r) ==
    IF r.writer /\ r.transport = "open"
    THEN [r EXCEPT !.transport = "closed",
                   !.log = Append(@, Ev("close", <<>>))]
    ELSE r

\* The text of the target command as each method sends it.
TargetCommand(r) ==
    IF r.mode = "with_response" THEN <<"(resp_cmd) ", r.command>>
    ELSE IF r.client = "bot" THEN <<"(cmd) input core.weechat ", r.command>>
    ELSE <<"(ff_cmd) input core.weechat ", r.command>>

AuthCommand(r) == <<"init password=", r.password>>

\* The methods each client has.
RelayMethods ==
    {<<"bot", "fire_and_forget">>, <<"earlier", "fire_and_forget">>,
     <<"earlier", "with_response">>}

\* Where a step leaves the call: on to next, or to the finally clause
\* when it raised.
Goto(r, next) == [r EXCEPT !.pc = IF r.exc # "" THEN "cleanup" ELSE next]

\* _perform_full_login checking nothing before it connects.
login_and_connect_unchecked(r, ok) ==
    Goto(_connect(r, ok), "send_handshake")

\* _perform_full_login up to the end of _connect
login_and_connect(r, ok) ==
    IF ~ Truthy(r.password)
    THEN [r EXCEPT !.exc = "ValueError", !.pc = "cleanup"]
    ELSE Goto(_connect(r, ok), "send_handshake")

engine_vars ==
    <<sessions, hooks, is_search_active, weechat_hooks, transfers,
      webhooks, channel_out, stream_budget, loaded>>

\* client = WeeChatRelayClient(); await client.run_...(command)
RelayCall(method, password, cmd, inbox) ==
    /\ relay.pc \in {"idle", "done"}
    /\ relay' = [RelayIdle EXCEPT !.pc = "login", !.client = method[1],
                                  !.mode = method[2], !.password = password,
                                  !.command = cmd, !.inbox = inbox]
    /\ UNCHANGED <<engine_vars, bot>>

RelayLogin(ok) ==
    /\ relay.pc = "login"
    /\ relay' = login_and_connect(relay, ok)
    /\ UNCHANGED <<engine_vars, bot>>

\* The handshake step going on to the authentication without the read.
RelaySendHandshake_skips_reply(ok) ==
    /\ relay.pc = "send_handshake"
    /\ relay' = Goto(_send(relay, <<"handshake">>, ok), "send_init")
    /\ UNCHANGED <<engine_vars, bot>>

RelaySendHandshake(ok) ==
    /\ relay.pc = "send_handshake"
    /\ relay' = Goto(_send(relay, <<"handshake">>, ok), "receive")
    /\ UNCHANGED <<engine_vars, bot>>

\* The handshake reply is read and discarded.
RelayReceiveHandshake(reset) ==
    /\ relay.pc = "receive"
    /\ relay' = Goto([receive_frame(relay, reset) EXCEPT !.result = NoneList],
                     "send_init")
    /\ UNCHANGED <<engine_vars, bot>>

RelaySendInit(ok) ==
    /\ relay.pc = "send_init"
    /\ relay' = Goto(_send(relay, AuthCommand(relay), ok), "send_command")
    /\ UNCHANGED <<engine_vars, bot>>

\* run_fire_and_forget_command reading a frame after its command.
after_command_always_reads(r) == "receive_response"

after_command(r) ==
    IF r.mode = "with_response" THEN "receive_response" ELSE "cleanup"

RelaySendCommand(ok) ==
    /\ relay.pc = "send_command"
    /\ relay' = Goto(_send(relay, TargetCommand(relay), ok),
                     after_command(relay))
    /\ UNCHANGED <<engine_vars, bot>>

\* response = await self._receive(); return response
RelayReceiveResponse(reset) ==
    /\ relay.pc = "receive_response"
    /\ relay' = [receive_frame(relay, reset) EXCEPT !.pc = "cleanup"]
    /\ UNCHANGED <<engine_vars, bot>>

\* The finally clause; the call then returns or raises what it raised.
RelayFinally(quit_ok) ==
    /\ relay.pc = "cleanup"
    /\ relay' = [(IF relay.client = "bot" THEN _close(relay, quit_ok)
                  ELSE _close_earlier(relay)) EXCEPT !.pc = "done"]
    /\ UNCHANGED <<engine_vars, bot>>

RelayNext ==
    \/ \E method \in RelayMethods, password \in Passwords,
          cmd \in RelayCommands, inbox \in InboundStreams :
          RelayCall(method, password, cmd, inbox)
    \/ \E ok \in BOOLEAN : RelayLogin(ok)
    \/ \E ok \in BOOLEAN : RelaySendHandshake(ok)
    \/ \E reset \in BOOLEAN : RelayReceiveHandshake(reset)
    \/ \E ok \in BOOLEAN : RelaySendInit(ok)
    \/ \E ok \in BOOLEAN : RelaySendCommand(ok)
    \/ \E reset \in BOOLEAN : RelayReceiveResponse(reset)
    \/ \E quit_ok \in BOOLEAN : RelayFinally(quit_ok)

RelaySpec == Init /\ [][RelayNext]_vars

\* ------------------------------------------- a collected search session
\* The SessionManager after construction, as a handler sees it.
FreshState ==
    [sessions |-> EmptyDict, hooks |-> EmptyDict, is_search_active |-> FALSE,
     weechat_hooks |-> EmptyDict, transfers |-> FALSE,
     webhooks |-> <<>>, channel_out |-> <<>>, written_when |-> <<>>,
     server_buffer_ptr |-> TRUE, channel_buffer_ptr |-> TRUE]

RECURSIVE PrintRecords(_, _, _)
PrintRecords(st, session_id, rs) ==
    IF rs = <<>> THEN st
    ELSE PrintRecords(
           handle_print_callback(st, session_id,
                                 MkLine(Head(rs), FALSE, NoneStr, None)),
           session_id, Tail(rs))

\* The state in which the settle timer of search session_id is due: the
\* search was accepted, the result lines of the records rs were printed in
\* this order, then the end-marker line, and the settle delay has passed.
Collected(session_id, rs) ==
    LET st1 == service_search_cb(FreshState, MkArgs(<<session_id, "q">>))
        st2 == PrintRecords(st1, session_id, rs)
        st3 == handle_print_callback(st2, session_id,
                                     MkLine(None, TRUE, NoneStr, None))
    IN [st3 EXCEPT !.channel_out = <<>>,
                   !.weechat_hooks =
                      [p \in DOMAIN @ |->
                         [@[p] EXCEPT !.remaining = @ - SettleDelay]]]

RECURSIVE RecordLists(_)
RecordLists(n) ==
    IF n = 0 THEN {<<>>}
    ELSE LET shorter == RecordLists(n - 1)
         IN shorter \cup
            {Append(rs, r) : rs \in {x \in shorter : Len(x) = n - 1},
                             r \in SearchRecords}

CurationInit ==
    /\ \E rs \in RecordLists(MaxRecords) :
          LET st == Collected("s1", rs)
          IN /\ sessions = st.sessions
             /\ hooks = st.hooks
             /\ is_search_active = st.is_search_active
             /\ weechat_hooks = st.weechat_hooks
             /\ transfers = st.transfers
             /\ webhooks = st.webhooks
             /\ channel_out = st.channel_out
    /\ stream_budget = 0
    /\ loaded = TRUE
    /\ relay = RelayIdle
    /\ bot = BotIdle

\* What follows for the collected session: its timers and its downloads.
CurationNext ==
    \/ \E args \in DownloadArgs : \E cb \in DownloadLookups(args) :
          CmdDownload(args, cb)
    \/ Tick
    \/ \E p \in DOMAIN weechat_hooks : FireTimer(p)

CurationSpec == CurationInit /\ [][CurationNext]_vars

\* ------------------------------------------- commands short of tokens
\* A search command that names a session and no query.
BareSearchArgs == {MkArgs(<<i>>) : i \in SessionIds}

\* The script when the bot's caller may also leave the query out.
UsageNext ==
    \/ Next
    \/ \E args \in BareSearchArgs : \E b \in CreationLookups(args) :
          CmdSearch(args, b[1], b[2])

UsageSpec == Init /\ [][UsageNext]_vars

\* ------------------------------------------- one search and one hot caller
\* The script with the two callers the bot runs side by side: searches and
\* downloads arrive for "s1", hot listings for "s2".  The event loop keeps
\* running: time passes and a due timer fires.
LifecycleNext ==
    \/ \E q \in QueryTokens :
          \E b \in CreationLookups(MkArgs(<<"s1", q>>)) :
             CmdSearch(MkArgs(<<"s1", q>>), b[1], b[2])
    \/ \E b \in CreationLookups(MkArgs(<<"s2">>)) :
          CmdHot(MkArgs(<<"s2">>), b[1], b[2])
    \/ \E c \in {"0", "1"} : \E cb \in DownloadLookups(MkArgs(<<"s1", c>>)) :
          CmdDownload(MkArgs(<<"s1", c>>), cb)
    \/ \E line \in Lines : PrintLine(line)
    \/ Tick
    \/ \E p \in DOMAIN weechat_hooks : FireTimer(p)

LifecycleSpec ==
    /\ Init /\ [][LifecycleNext]_vars
    /\ WF_vars(Tick)
    /\ WF_vars(\E p \in DOMAIN weechat_hooks : FireTimer(p))

\* ------------------------------------------- an id used a second time
\* The command arguments that name a session of the store.
LiveIdArgs(S) ==
    {a \in S : a.balanced /\ a.tokens # <<>> /\ a.tokens[1] \in DOMAIN sessions}

\* The script when the caller may name a session that is still live in a
\* creation command: the callbacks take whatever id they are given.
ReuseNext ==
    \/ Next
    \/ \E args \in LiveIdArgs(SearchArgs) : \E b \in CreationLookups(args) :
          loaded /\ AfterHandler(SearchResult(args, b[1], b[2]))
    \/ \E args \in LiveIdArgs(HotArgs) : \E b \in CreationLookups(args) :
          loaded /\ AfterHandler(HotResult(args, b[1], b[2]))

ReuseSpec == Init /\ [][ReuseNext]_vars

\* ------------------------------------------------ bot: slash commands
\* bot/bot.py and bot/webhooks.py.  uuid.uuid4() returns no id twice.
Uuids == {"u1", "u2"}
Kinds == {"search", "hot"}

\* f"/autoxdcc_service_search {session_id} {query}" and
\* f"/autoxdcc_service_hot {session_id}"
weechat_command(kind, session_id) ==
    CASE kind = "search" /\ session_id = "u1" -> "/autoxdcc_service_search u1 q"
      [] kind = "search" /\ session_id = "u2" -> "/autoxdcc_service_search u2 q"
      [] kind = "hot" /\ session_id = "u1" -> "/autoxdcc_service_hot u1"
      [] kind = "hot" /\ session_id = "u2" -> "/autoxdcc_service_hot u2"

Interaction(session_id) == [interaction |-> session_id]

\* search and hot up to the relay call: the id is put in ACTIVE_SESSIONS.
command_begin(b, kind, session_id) ==
    [b EXCEPT !.pc = "calling", !.session_id = session_id,
              !.ACTIVE_SESSIONS = Put(@, session_id, Interaction(session_id)),
              !.registered = @ \cup {session_id}]

\* The except clause leaving the entry where it is.
command_end_keeps_entry(b, raised) == [b EXCEPT !.pc = "idle"]

\* search and hot after the relay call: `except Exception` pops the id.
\* raised: run_fire_and_forget_command or the followup message raised.
command_end(b, raised) ==
    [b EXCEPT !.pc = "idle",
              !.ACTIVE_SESSIONS = IF raised THEN Pop(@, b.session_id) ELSE @]

\* What the webhook endpoint did: the id, whether the id had ever been
\* registered by then, and the answer.
Handled(b, session_id, endpoint, status) ==
    <<[session_id |-> session_id, endpoint |-> endpoint,
       registered |-> session_id \in b.registered, status |-> status]>>

\* receive_search_results.  not_found: editing the message raises NotFound.
receive_search_results(b, session_id, status, not_found) ==
    LET interaction == Get(b.ACTIVE_SESSIONS, session_id)
    IN IF interaction = None
       THEN [b EXCEPT !.handled =
                         Handled(b, session_id, "search_results", "error")]
       ELSE [b EXCEPT !.handled =
                         Handled(b, session_id, "search_results", "ok"),
                      !.ACTIVE_SESSIONS =
                         IF status = "success" /\ ~ not_found
                         THEN @ ELSE Pop(@, session_id)]

\* receive_hot_results pops the id before anything else.
receive_hot_results(b, session_id) ==
    LET interaction == Get(b.ACTIVE_SESSIONS, session_id)
    IN IF interaction = None
       THEN [b EXCEPT !.handled =
                         Handled(b, session_id, "hot_results", "error")]
       ELSE [b EXCEPT !.handled = Handled(b, session_id, "hot_results", "ok"),
                      !.ACTIVE_SESSIONS = Pop(@, session_id)]

\* The target command of the call in progress was written to the
\* connection; a write whose drain raised may have got through as well.
Injected ==
    \E k \in 1..Len(relay.log) :
        /\ relay.log[k].op \in {"send", "send_failed"}
        /\ relay.log[k].text = TargetCommand(relay)

\* The ids WeeChat has got a command for, each with its kind: only for
\* these can the script send a webhook.
ReceivedByWeeChat ==
    IF bot.pc = "calling" /\ Injected
    THEN Put(bot.received, bot.session_id,
             IF relay.command = weechat_command("hot", bot.session_id)
             THEN "hot" ELSE "search")
    ELSE bot.received

\* A slash command: search or hot.
BotCommand(kind, password, inbox) ==
    /\ bot.pc = "idle"
    /\ relay.pc \in {"idle", "done"}
    /\ Uuids \ bot.registered # {}
    /\ LET session_id == IF "u1" \notin bot.registered THEN "u1" ELSE "u2"
       IN /\ bot' = command_begin(bot, kind, session_id)
          /\ relay' = [RelayIdle EXCEPT
                          !.pc = "login", !.client = "bot",
                          !.mode = "fire_and_forget", !.password = password,
                          !.command = weechat_command(kind, session_id),
                          !.inbox = inbox]
    /\ UNCHANGED engine_vars

\* The relay call returned or raised; the followup message is sent.
BotReturn(followup_ok) ==
    /\ bot.pc = "calling"
    /\ relay.pc = "done"
    /\ bot' = [command_end(bot, relay.exc # "" \/ ~ followup_ok)
                 EXCEPT !.received = ReceivedByWeeChat]
    /\ UNCHANGED <<engine_vars, relay>>

\* The script's webhook for a session arrives at the bot's web server.
WebhookArrives(session_id, status, not_found) ==
    /\ session_id \in DOMAIN ReceivedByWeeChat
    /\ bot' = IF ReceivedByWeeChat[session_id] = "hot"
              THEN receive_hot_results(bot, session_id)
              ELSE receive_search_results(bot, session_id, status, not_found)
    /\ UNCHANGED <<engine_vars, relay>>

BotNext ==
    \/ \E kind \in Kinds, password \in Passwords, inbox \in InboundStreams :
          BotCommand(kind, password, inbox)
    \/ \E ok \in BOOLEAN : RelayLogin(ok)
    \/ \E ok \in BOOLEAN : RelaySendHandshake(ok)
    \/ \E reset \in BOOLEAN : RelayReceiveHandshake(reset)
    \/ \E ok \in BOOLEAN : RelaySendInit(ok)
    \/ \E ok \in BOOLEAN : RelaySendCommand(ok)
    \/ \E quit_ok \in BOOLEAN : RelayFinally(quit_ok)
    \/ \E followup_ok \in BOOLEAN : BotReturn(followup_ok)
    \/ \E session_id \in Uuids, not_found \in BOOLEAN,
          status \in {"success", "rejected_busy", "no_results"} :
          WebhookArrives(session_id, status, not_found)

BotSpec == Init /\ [][BotNext]_vars

\* ------------------------------------------------- vocabulary of the claims
\* A session of the store on which handle_final_processing has not run yet:
\* a hot session (it leaves the store when it is finalized) or a search
\* session that has no choices yet.
Unfinalized(ss, i) ==
    i \in DOMAIN ss /\ (ss[i].type = "hot" \/ ss[i].choices = <<>>)

\* A search session whose choices were generated and reported.
PendingDownload(ss, i) ==
    i \in DOMAIN ss /\ ss[i].type = "search" /\ ss[i].choices # <<>>

Webhook(endpoint, payload) == [endpoint |-> endpoint, payload |-> payload]

Rejected(i) ==
    Webhook("search_results", [session_id |-> i, status |-> "rejected_busy"])

StartError(i) ==
    Webhook("search_results", [session_id |-> i, status |-> "error"])

SearchSuccess(i, choices) ==
    Webhook("search_results",
            [session_id |-> i, status |-> "success", choices |-> choices])

SearchNoResults(i) ==
    Webhook("search_results",
            [session_id |-> i, status |-> "no_results", choices |-> NoneList])

HotSuccess(i, summary, items) ==
    Webhook("hot_results", [session_id |-> i, status |-> "success",
                            summary |-> summary, items |-> items])

HotNoResults(i) ==
    Webhook("hot_results", [session_id |-> i, status |-> "no_results",
                            summary |-> NoneStr, items |-> NoneList])

DownloadSuccess(i) ==
    Webhook("download_status", [session_id |-> i, status |-> "success"])

DownloadError(i) ==
    Webhook("download_status", [session_id |-> i, status |-> "error"])

Expired(i) ==
    Webhook("session_expired", [session_id |-> i, status |-> "expired"])

\* The hooks armed in the hook set wh whose callback data is session i.
HooksOf(wh, i) == {p \in DOMAIN wh : wh[p].data = i}

\* Timer name of session i is recorded in the table and armed in WeeChat.
Armed(st, i, name) ==
    /\ i \in DOMAIN st.hooks
    /\ name \in DOMAIN st.hooks[i]
    /\ st.hooks[i][name] \in DOMAIN st.weechat_hooks

WellFormed(args) == args.balanced /\ args.tokens # <<>>

\* The states the handlers that the event loop can run now would yield.
SearchOutcomes ==
    UNION {{SearchResult(a, b[1], b[2]) : b \in CreationLookups(a)} :
              a \in {x \in SearchArgs : CmdEnabled(x)}}

HotOutcomes ==
    UNION {{HotResult(a, b[1], b[2]) : b \in CreationLookups(a)} :
              a \in {x \in HotArgs : CmdEnabled(x)}}

DownloadOutcomes ==
    UNION {{DownloadResult(a, cb) : cb \in DownloadLookups(a)} :
              a \in {x \in DownloadArgs : CmdDownloadEnabled}}

PrintOutcomes ==
    IF PrintLineEnabled THEN {PrintLineResult(line) : line \in Lines} ELSE {}

HttpOutcomes ==
    IF HttpPostEnabled
    THEN {HttpPostResult(i, rc, more) :
             i \in SessionIds, rc \in {0, 7}, more \in BOOLEAN}
    ELSE {}

DueTimers == {p \in DOMAIN weechat_hooks : FireTimerEnabled(p)}

TimerOutcomes == {FireTimerResult(p) : p \in DueTimers}

NonTimerOutcomes ==
    SearchOutcomes \cup HotOutcomes \cup DownloadOutcomes
        \cup PrintOutcomes \cup HttpOutcomes

Outcomes == NonTimerOutcomes \cup TimerOutcomes

\* The due timers that call handle_final_processing for a session of the
\* given type that is in the store.
DueFinalTimers(type) ==
    {p \in DueTimers :
        /\ weechat_hooks[p].callback = "global_final_processing_cb"
        /\ weechat_hooks[p].data \in DOMAIN sessions
        /\ sessions[weechat_hooks[p].data].type = type}

\* ------------------------------------------------------------------ C1
\* C1: at every moment at most one session of the store is un-finalized (a
\* search or hot session on which handle_final_processing has not run);
\* sessions awaiting a download may be in the store next to it.
C1_AtMostOneUnfinalized ==
    Cardinality({i \in DOMAIN sessions : Unfinalized(sessions, i)}) <= 1

\* An un-finalized session next to a session that awaits its download.
C1_Witness ==
    \E i \in DOMAIN sessions, j \in DOMAIN sessions :
        /\ i # j
        /\ Unfinalized(sessions, i)
        /\ PendingDownload(sessions, j)

\* ------------------------------------------------------------------ C2
\* The webhook that reports the end of session s (a record of the store
\* before the step) in the handler outcome st.
EndsWith(s, st) ==
    IF s.type = "hot"
    THEN {HotSuccess(s.id, s.hot_summary, s.hot_items), HotNoResults(s.id)}
    ELSE IF s.choices = <<>>
    THEN {SearchNoResults(s.id), Expired(s.id)}
    ELSE {DownloadSuccess(s.id), Expired(s.id)}

\* Session i ends or is finalized between the store and the outcome st.
Terminates(i, st) ==
    /\ i \in DOMAIN sessions
    /\ \/ i \notin DOMAIN st.sessions
       \/ Unfinalized(sessions, i) /\ ~ Unfinalized(st.sessions, i)

C3_BusyRejection ==
    (loaded /\ is_search_active) =>
        \A a \in {x \in SearchArgs \cup HotArgs : WellFormed(x)} :
        \A b \in BufferAnswers :
        \A st \in {SearchResult(a, b[1], b[2])} \cup
                  (IF a \in HotArgs THEN {HotResult(a, b[1], b[2])} ELSE {}) :
            /\ st.webhooks = <<Rejected(a.tokens[1])>>
            /\ st.sessions = sessions
            /\ st.hooks = hooks
            /\ st.weechat_hooks = weechat_hooks
            /\ st.channel_out = <<>>
            /\ st.is_search_active

\* A command was just rejected while another session holds the lock.
C3_Witness ==
    \E i \in SessionIds :
        /\ webhooks = <<Rejected(i)>>
        /\ is_search_active
        /\ i \notin DOMAIN sessions
        /\ \E j \in DOMAIN sessions : Unfinalized(sessions, j)

\* ------------------------------------------------------------------ C4
\* C4: every acquisition of the lock is eventually followed by its
\* release, also for a search session that never gets its end marker.
C4_LockEventuallyReleased == is_search_active ~> ~ is_search_active

\* ------------------------------------------------------------------ C5
\* C5: when the server buffer or the channel buffer is not found as a
\* search or hot command is accepted, the session is not in the store
\* afterwards, the lock is free, no hook is left armed or recorded for it,
\* nothing was written to the channel and exactly one error webhook was
\* sent for the session id.
C5_StartErrorCleansUp ==
    (loaded /\ ~ is_search_active) =>
        \A a \in {x \in SearchArgs \cup HotArgs :
                     WellFormed(x) /\ CmdEnabled(x)} :
        \A b \in {<<FALSE, TRUE>>, <<TRUE, FALSE>>} :
        \A st \in {SearchResult(a, b[1], b[2])} \cup
                  (IF a \in HotArgs THEN {HotResult(a, b[1], b[2])} ELSE {}) :
            LET i == a.tokens[1]
            IN /\ i \notin DOMAIN st.sessions
               /\ i \notin DOMAIN st.hooks
               /\ HooksOf(st.weechat_hooks, i) = {}
               /\ st.sessions = sessions
               /\ st.weechat_hooks = weechat_hooks
               /\ ~ st.is_search_active
               /\ st.channel_out = <<>>
               /\ st.webhooks = <<StartError(i)>>

\* A creation command just failed for want of a buffer.
C5_Witness ==
    \E i \in SessionIds :
        /\ webhooks = <<StartError(i)>>
        /\ channel_out = <<>>
        /\ ~ is_search_active
        /\ i \notin DOMAIN sessions
        /\ HooksOf(weechat_hooks, i) = {}

\* ------------------------------------------------------------------ C6
\* The expiry timer of session i is recorded and armed.
ExpiryArmed(st, i) ==
    /\ Armed(st, i, "expiry_timer")
    /\ st.weechat_hooks[st.hooks[i]["expiry_timer"]] \in
         [type : {"timer"}, callback : {"global_expiry_cb"},
          data : {i}, remaining : 0..SessionTimeout]

\* C6: when the settle timer of a search session with at least one choice
\* fires, exactly one success webhook carries the whole choice list, the
\* lock is released, an expiry timer is armed for the session and the
\* session stays in the store; it then stays there, its expiry timer
\* armed, until a successful download or its expiry.
C6_SearchSuccess ==
    /\ \A p \in DueFinalTimers("search") :
          LET i == weechat_hooks[p].data
              choices == generate_choices(sessions[i]).choices
              st == FireTimerResult(p)
          IN choices # <<>> =>
                /\ st.webhooks = <<SearchSuccess(i, choices)>>
                /\ ~ st.is_search_active
                /\ i \in DOMAIN st.sessions
                /\ st.sessions[i].choices = choices
                /\ ExpiryArmed(st, i)
    /\ \A i \in DOMAIN sessions :
          PendingDownload(sessions, i) =>
             /\ ExpiryArmed(State, i)
             /\ \A st \in Outcomes :
                   \/ PendingDownload(st.sessions, i) /\ ExpiryArmed(st, i)
                   \/ /\ i \notin DOMAIN st.sessions
                      /\ st.webhooks \in {<<DownloadSuccess(i)>>, <<Expired(i)>>}

\* A search was just reported with two choices; it waits for a download.
C6_Witness ==
    \E i \in DOMAIN sessions :
        /\ Len(sessions[i].choices) = 2
        /\ webhooks = <<SearchSuccess(i, sessions[i].choices)>>
        /\ ~ is_search_active
        /\ ExpiryArmed(State, i)

\* ------------------------------------------------------------------ C7
\* C7: when the settle timer of a search session without any choice fires,
\* exactly one no_results webhook is sent, the session leaves the store,
\* every hook of the session is unhooked (so that no expiry can follow) and
\* the lock is free.
C7_SearchNoResults ==
    \A p \in DueFinalTimers("search") :
        LET i == weechat_hooks[p].data
            st == FireTimerResult(p)
        IN generate_choices(sessions[i]).choices = <<>> =>
              /\ st.webhooks = <<SearchNoResults(i)>>
              /\ i \notin DOMAIN st.sessions
              /\ i \notin DOMAIN st.hooks
              /\ HooksOf(st.weechat_hooks, i) = {}
              /\ ~ st.is_search_active

\* A search was just reported empty and nothing is left of its session.
C7_Witness ==
    \E i \in SessionIds :
        /\ webhooks = <<SearchNoResults(i)>>
        /\ i \notin DOMAIN sessions
        /\ i \notin DOMAIN hooks
        /\ HooksOf(weechat_hooks, i) = {}
        /\ ~ is_search_active

HotMatch(line) ==
    parse_hot_header_line(line) # NoneStr \/ parse_hot_item_line(line) # None

\* The armed timers that finalize session i.
FinalTimers(wh, i) ==
    {p \in HooksOf(wh, i) : wh[p].type = "timer"
                            /\ wh[p].callback = "global_final_processing_cb"}

SettleBeforeFinalization ==
    /\ \A i \in DOMAIN sessions :
          (sessions[i].type = "search" /\ Unfinalized(sessions, i)) =>
             /\ (PrintLineEnabled /\ Armed(State, i, "print_hook")) =>
                   \A line \in {l \in Lines : is_end_of_search_results(l)} :
                      LET st == PrintLineResult(line)
                      IN /\ "print_hook" \notin DOMAIN st.hooks[i]
                         /\ \A p \in HooksOf(st.weechat_hooks, i) :
                               st.weechat_hooks[p].type = "timer"
                         /\ Armed(st, i, "processing_timer")
                         /\ FinalTimers(st.weechat_hooks, i) =
                               {st.hooks[i]["processing_timer"]}
                         /\ st.weechat_hooks[st.hooks[i]["processing_timer"]]
                               .remaining = SettleDelay
                         /\ Unfinalized(st.sessions, i)
                         /\ st.is_search_active
                         /\ st.webhooks = <<>>
             /\ \A st \in NonTimerOutcomes :
                   Unfinalized(st.sessions, i) /\ st.is_search_active
             /\ \A p \in DueTimers :
                   LET st == FireTimerResult(p)
                   IN (\/ PendingDownload(st.sessions, i)
                       \/ ~ st.is_search_active
                       \/ st.webhooks = <<SearchNoResults(i)>>)
                         => (Armed(State, i, "processing_timer")
                             /\ p = hooks[i]["processing_timer"])
    /\ \A p \in DOMAIN weechat_hooks :
          weechat_hooks[p].callback = "global_final_processing_cb" =>
             /\ Unfinalized(sessions, weechat_hooks[p].data)
             /\ is_search_active

\* C10: the end-marker line of a search session unhooks its print hook and
\* arms the settle timer; the session is finalized only when that timer
\* fires, never in the step of the end marker; and from the end marker
\* until the settle timer fires the session stays in the store with the
\* lock held: no other callback takes it out of the store.
C10_SessionStaysUntilSettle ==
    /\ SettleBeforeFinalization
    /\ \A i \in DOMAIN sessions :
          (sessions[i].type = "search" /\ Armed(State, i, "processing_timer")) =>
             \A st \in {FireTimerResult(p) :
                          p \in DueTimers \ {hooks[i]["processing_timer"]}}
                       \cup NonTimerOutcomes :
                i \in DOMAIN st.sessions /\ st.is_search_active

\* ----------------------------------------------------------------- C11
\* The choices generate_choices yields for the records session s holds.
ChoicesOf(s) == generate_choices([s EXCEPT !.choices = <<>>]).choices

\* C11: a line is processed when it arrives, its record or hot item going
\* to the end of the session's list; no record or hot item is appended to
\* a session whose print hook is gone; and the print hook of a search
\* session is gone before generate_choices runs, so that the choices are
\* those of every record the session will ever hold.
C11_NoRecordAfterTeardown ==
    \A i \in DOMAIN sessions :
       LET s == sessions[i]
       IN /\ PrintLineEnabled =>
                \A line \in Lines :
                   LET t == PrintLineResult(line).sessions[i]
                       r == parse_search_result_line(line)
                       h == parse_hot_item_line(line)
                   IN IF ~ Armed(State, i, "print_hook")
                      THEN t = s
                      ELSE IF s.type = "search"
                      THEN /\ t.search_results =
                                 IF r # None THEN Append(s.search_results, r)
                                 ELSE s.search_results
                           /\ t.hot_items = s.hot_items
                      ELSE /\ t.hot_items =
                                 IF h # None THEN Append(s.hot_items, h)
                                 ELSE s.hot_items
                           /\ t.search_results = s.search_results
          /\ ~ Armed(State, i, "print_hook") =>
                \A st \in Outcomes :
                   i \in DOMAIN st.sessions =>
                      /\ st.sessions[i].hot_items = s.hot_items
                      /\ SortByGrabs(st.sessions[i].search_results) =
                            SortByGrabs(s.search_results)
          /\ \A p \in DueFinalTimers("search") :
                weechat_hooks[p].data = i =>
                   ~ Armed(State, i, "print_hook")
          /\ PendingDownload(sessions, i) =>
                /\ ~ Armed(State, i, "print_hook")
                /\ s.choices = ChoicesOf(s)

\* A search session whose print hook is gone holds two records, and the
\* upstream bot may still emit a line.
C11_Witness ==
    \E i \in DOMAIN sessions :
        /\ sessions[i].type = "search"
        /\ Len(sessions[i].search_results) = 2
        /\ HooksOf(weechat_hooks, i) # {}
        /\ \A p \in HooksOf(weechat_hooks, i) : weechat_hooks[p].type = "timer"
        /\ \E j \in DOMAIN sessions : Armed(State, j, "print_hook")

\* ----------------------------------------------------------------- C12
Filenames(rs) == {rs[k].filename : k \in 1..Len(rs)}

\* The position in rs of the record that stands for filename f: the one
\* with the most grabs, the earliest of them when several have as many.
Best(rs, f) ==
    CHOOSE k \in 1..Len(rs) :
        /\ rs[k].filename = f
        /\ \A j \in 1..Len(rs) :
              rs[j].filename = f =>
                 \/ rs[j].grabs < rs[k].grabs
                 \/ rs[j].grabs = rs[k].grabs /\ j >= k

\* choices is the curation of the records rs, taken in arrival order.
IsCuration(rs, choices) ==
    /\ Len(choices) = Cardinality(Filenames(rs))
    /\ \A n \in 1..Len(choices) :
          /\ choices[n].choice_id = n
          /\ choices[n].filename \in Filenames(rs)
          /\ choices[n].size = rs[Best(rs, choices[n].filename)].size
          /\ DOMAIN choices[n] = {"choice_id", "filename", "size"}
    /\ \A m \in 1..Len(choices), n \in 1..Len(choices) :
          m < n =>
             LET a == Best(rs, choices[m].filename)
                 b == Best(rs, choices[n].filename)
             IN /\ choices[m].filename # choices[n].filename
                /\ \/ rs[a].grabs > rs[b].grabs
                   \/ rs[a].grabs = rs[b].grabs /\ a < b

\* C12: generate_choices over any list of records yields one choice per
\* distinct filename, in the order of the most grabs of each filename
\* (descending, ties in arrival order), with the choice ids 1..n in that
\* order and the size of the filename's record of most grabs; the records
\* (3,700M,A), (9,1.2G,A), (1,2G,B) give the choices (1,A,1.2G), (2,B,2G).
C12_GenerateChoices ==
    /\ \A p \in DueFinalTimers("search") :
          LET i == weechat_hooks[p].data
              rs == sessions[i].search_results
              choices == generate_choices(sessions[i]).choices
              st == FireTimerResult(p)
          IN sessions[i].choices = <<>> =>
                /\ IsCuration(rs, choices)
                /\ rs # <<>> =>
                      /\ st.sessions[i].choices = choices
                      /\ st.webhooks = <<SearchSuccess(i, choices)>>
                /\ rs = <<R1, R2, R3>> =>
                      choices = <<[choice_id |-> 1, filename |-> "A",
                                   size |-> "1.2G"],
                                  [choice_id |-> 2, filename |-> "B",
                                   size |-> "2G"]>>
    /\ \A i \in DOMAIN sessions :
          PendingDownload(sessions, i) =>
             IsCuration(sessions[i].search_results, sessions[i].choices)

\* The choices of the records (3,700M,A), (9,1.2G,A), (1,2G,B) were just
\* generated and reported.
C12_Witness ==
    /\ "s1" \in DOMAIN sessions
    /\ sessions["s1"].search_results = <<R2, R1, R3>>
    /\ webhooks = <<SearchSuccess("s1",
                      <<[choice_id |-> 1, filename |-> "A", size |-> "1.2G"],
                        [choice_id |-> 2, filename |-> "B", size |-> "2G"]>>)>>


\* ----------------------------------------------------------------- C13
\* What service_download_cb yields for choice token c of session i when
\* the channel buffer is found.
Downloaded(i, c) == DownloadResult(MkArgs(<<i, c>>), TRUE)

\* The download of choice token c of the pending session i wrote the
\* directive of the record of most grabs that has the choice's filename,
\* sent one success and ended the session.
DirectiveThenSuccess(i, c) ==
    LET st == Downloaded(i, c)
        rs == sessions[i].search_results
        f == sessions[i].choices[ParseInt(c)].filename
    IN /\ st.channel_out = << <<rs[Best(rs, f)].command>> >>
       /\ st.webhooks = <<DownloadSuccess(i)>>
       /\ i \notin DOMAIN st.sessions
       /\ i \notin DOMAIN st.hooks
       /\ HooksOf(st.weechat_hooks, i) = {}
       /\ st.is_search_active = is_search_active

\* The choice tokens that name a choice of session i.
ValidTokens(i) ==
    {c \in ChoiceTokens : ParseInt(c) \in 1..Len(sessions[i].choices)}

\* The part of C13 that holds: a choice with a non-empty filename is
\* downloaded, and no download sends success without a directive.
DownloadOfNamedChoice ==
    /\ \A i \in DOMAIN sessions :
          PendingDownload(sessions, i) =>
             \A c \in ValidTokens(i) :
                Truthy(sessions[i].choices[ParseInt(c)].filename) =>
                   DirectiveThenSuccess(i, c)
    /\ \A st \in DownloadOutcomes :
          (\E k \in 1..Len(st.webhooks) :
              st.webhooks[k].payload.status = "success")
             => Len(st.channel_out) = 1

\* C13: for a search session that waits for a download and a choice id in
\* 1..n, with the channel present, the download command writes the
\* directive of the record of most grabs with the choice's filename, sends
\* exactly one download_status success and ends the session (out of the
\* store, expiry timer unhooked).
C13_DownloadSuccess ==
    \A i \in DOMAIN sessions :
        PendingDownload(sessions, i) =>
           \A c \in ValidTokens(i) : DirectiveThenSuccess(i, c)


\* ----------------------------------------------------------------- C14
\* Choice token c names no choice of the session stored under i, or i is
\* not the id of a search session of the store.
InvalidDownload(i, c) ==
    \/ i \notin DOMAIN sessions
    \/ sessions[i].type # "search"
    \/ ParseInt(c) \notin
          {sessions[i].choices[k].choice_id :
              k \in 1..Len(sessions[i].choices)}

\* C14: a download command whose choice id is none of the session's
\* choice ids (0, n+1, not a number), or whose session id is unknown or
\* expired, sends exactly one download_status error and writes nothing to
\* the channel; the store (records and choices included), the handle
\* table, the armed hooks and timers and the lock stay as they were.
C14_InvalidDownload ==
    \A i \in SessionIds, c \in ChoiceTokens, cb \in BOOLEAN :
        InvalidDownload(i, c) =>
           LET st == DownloadResult(MkArgs(<<i, c>>), cb)
           IN /\ st.webhooks = <<DownloadError(i)>>
              /\ st.channel_out = <<>>
              /\ st.sessions = sessions
              /\ st.hooks = hooks
              /\ st.weechat_hooks = weechat_hooks
              /\ st.is_search_active = is_search_active

\* A download with an invalid choice was just refused for a session that
\* waits for a download while another id is unknown: the session is in the
\* store with its expiry timer.
C14_Witness ==
    \E i \in DOMAIN sessions :
        /\ PendingDownload(sessions, i)
        /\ ExpiryArmed(State, i)
        /\ webhooks = <<DownloadError(i)>>
        /\ \E j \in SessionIds : j \notin DOMAIN sessions
        /\ \E c \in ChoiceTokens :
              ParseInt(c) = Len(sessions[i].choices) + 1


\* ----------------------------------------------------------------- C15
\* The due timers that call handle_expiry.
DueExpiryTimers ==
    {p \in DueTimers : weechat_hooks[p].callback = "global_expiry_cb"}

\* The part of C15 that holds: no expiry timer is armed for a hot session,
\* and handle_expiry does nothing for an id that is not in the store.
ExpiryNeverForHot ==
    /\ \A p \in DOMAIN weechat_hooks :
          weechat_hooks[p].callback = "global_expiry_cb" =>
             \/ weechat_hooks[p].data \notin DOMAIN sessions
             \/ sessions[weechat_hooks[p].data].type = "search"
    /\ \A i \in SessionIds :
          (i \notin DOMAIN sessions \/ sessions[i].type = "hot") =>
             \A st \in Outcomes : Expired(i) \notin
                {st.webhooks[k] : k \in 1..Len(st.webhooks)}

\* C15: handle_expiry ends a session and sends expired only for a search
\* session that waits for a download (finalized with at least one choice):
\* when an expiry timer fires for a session that is still collecting, or
\* that waits for its settle timer, or that is a hot session, the store is
\* left as it was and nothing is sent.
C15_ExpiryOnlyPendingDownload ==
    \A p \in DueExpiryTimers :
        LET i == weechat_hooks[p].data
            st == FireTimerResult(p)
        IN ~ PendingDownload(sessions, i) =>
              /\ st.sessions = sessions
              /\ st.webhooks = <<>>


\* ----------------------------------------------------------------- C16
\* C16: when the expiry timer of a search session that waits for a
\* download fires, the session leaves the store, none of its handles stays
\* recorded or armed, and exactly one expired webhook is sent; a download
\* command on an id that is not in the store sends one download_status
\* error, writes nothing to the channel and creates no session.
C16_ExpiryThenDownloadFails ==
    /\ \A p \in DueExpiryTimers :
          LET i == weechat_hooks[p].data
              st == FireTimerResult(p)
          IN PendingDownload(sessions, i) =>
                /\ st.webhooks = <<Expired(i)>>
                /\ st.channel_out = <<>>
                /\ i \notin DOMAIN st.sessions
                /\ i \notin DOMAIN st.hooks
                /\ HooksOf(st.weechat_hooks, i) = {}
                /\ \A c \in ChoiceTokens, cb \in BOOLEAN :
                      LET st2 == service_download_cb(
                                    [st EXCEPT !.webhooks = <<>>,
                                               !.channel_buffer_ptr = cb],
                                    MkArgs(<<i, c>>))
                      IN /\ st2.webhooks = <<DownloadError(i)>>
                         /\ st2.channel_out = <<>>
                         /\ st2.sessions = st.sessions
                         /\ st2.hooks = st.hooks
                         /\ st2.weechat_hooks = st.weechat_hooks
    /\ \A i \in SessionIds : \A c \in ChoiceTokens, cb \in BOOLEAN :
          i \notin DOMAIN sessions =>
             LET st == DownloadResult(MkArgs(<<i, c>>), cb)
             IN /\ st.webhooks = <<DownloadError(i)>>
                /\ st.channel_out = <<>>
                /\ st.sessions = sessions

\* A session with choices has just expired: it was reported, nobody
\* downloaded, and the expired webhook is the last thing sent.
C16_Witness ==
    \E i \in SessionIds :
        /\ webhooks = <<Expired(i)>>
        /\ i \notin DOMAIN sessions
        /\ HooksOf(weechat_hooks, i) = {}
        /\ ~ is_search_active


\* ----------------------------------------------------------------- C17
\* How many times the webhook w occurs in the sequence ws.
Count(ws, w) == Cardinality({k \in 1..Len(ws) : ws[k] = w})

\* C17: expiry cannot race termination.  Whatever ends a session (download
\* success, no_results, hot finalization, expiry, a start error) leaves no
\* handle of it recorded or armed; for an id that is not in the store no
\* timer is armed, handle_expiry does nothing and no handler sends
\* expired; a handler sends expired at most once, and only for a session
\* that it takes out of the store.
C17_NoExpiryAfterTermination ==
    /\ \A i \in SessionIds :
          i \notin DOMAIN sessions =>
             /\ HooksOf(weechat_hooks, i) = {}
             /\ i \notin DOMAIN hooks
             /\ handle_expiry(State, i) = State
             /\ \A st \in Outcomes : Count(st.webhooks, Expired(i)) = 0
    /\ \A st \in Outcomes : \A i \in DOMAIN sessions :
          /\ i \notin DOMAIN st.sessions =>
                /\ HooksOf(st.weechat_hooks, i) = {}
                /\ i \notin DOMAIN st.hooks
          /\ Count(st.webhooks, Expired(i)) <= 1
          /\ Count(st.webhooks, Expired(i)) = 1 => i \notin DOMAIN st.sessions

\* A session was just ended by a successful download while its expiry
\* timer was still running.
C17_Witness ==
    \E i \in SessionIds :
        /\ webhooks = <<DownloadSuccess(i)>>
        /\ i \notin DOMAIN sessions
        /\ HooksOf(weechat_hooks, i) = {}


\* ----------------------------------------------------------------- C18
\* C18: end_session without release_lock is idempotent.  On an id that is
\* not in the store it returns the state as it was (store, handle table,
\* armed hooks, lock, nothing sent); run a second time on any id it
\* changes nothing that the first run left, and it never touches another
\* session or its handles.
C18_EndSessionIdempotent ==
    \A i \in SessionIds :
        LET once == end_session(State, i, FALSE)
            twice == end_session(once, i, FALSE)
        IN /\ i \notin DOMAIN sessions => once = State
           /\ twice = once
           /\ once.webhooks = <<>> /\ once.channel_out = <<>>
           /\ once.is_search_active = is_search_active
           /\ \A j \in DOMAIN sessions \ {i} :
                 /\ j \in DOMAIN once.sessions
                 /\ once.sessions[j] = sessions[j]
                 /\ Get(once.hooks, j) = Get(hooks, j)
                 /\ HooksOf(once.weechat_hooks, j) = HooksOf(weechat_hooks, j)

\* One session has just been ended by its expiry while another one, whose
\* hooks are armed, holds the lock.
C18_Witness ==
    \E i \in SessionIds, j \in DOMAIN sessions :
        /\ i \notin DOMAIN sessions
        /\ webhooks = <<Expired(i)>>
        /\ is_search_active
        /\ HooksOf(weechat_hooks, j) # {}
        /\ j \in DOMAIN hooks


\* ----------------------------------------------------------------- C19
\* The pointers recorded in the handle table under session i.
Recorded(h, i) == {h[i][n] : n \in DOMAIN h[i]}

\* Every armed hook is recorded under exactly one session, which is in the
\* store and is the one its callback serves; every recorded handle is
\* armed; no handle is recorded twice.
HandlesOwned(st) ==
    /\ DOMAIN st.hooks \subseteq DOMAIN st.sessions
    /\ \A p \in DOMAIN st.weechat_hooks :
          /\ st.weechat_hooks[p].data \in DOMAIN st.hooks
          /\ \A i \in DOMAIN st.hooks :
                p \in Recorded(st.hooks, i) <=> i = st.weechat_hooks[p].data
    /\ \A i \in DOMAIN st.hooks :
          /\ Recorded(st.hooks, i) \subseteq DOMAIN st.weechat_hooks
          /\ \A m \in DOMAIN st.hooks[i], n \in DOMAIN st.hooks[i] :
                st.hooks[i][m] = st.hooks[i][n] => m = n

\* C19: in every reachable state, session ids being unique while live,
\* every armed timer and print hook is recorded under exactly one session
\* of the store, the ids that own handles are ids of the store, no handle
\* is shared, and a session that a handler takes out of the store has no
\* handle left armed.
C19_HandlesOwnedByLiveSessions ==
    /\ HandlesOwned(State)
    /\ \A st \in Outcomes :
          /\ HandlesOwned(st)
          /\ \A i \in DOMAIN sessions \ DOMAIN st.sessions :
                /\ HooksOf(st.weechat_hooks, i) = {}
                /\ Recorded(hooks, i) \cap DOMAIN st.weechat_hooks = {}

\* Two sessions are in the store and each has an armed handle of its own.
C19_Witness ==
    \E i \in DOMAIN sessions, j \in DOMAIN sessions :
        /\ i # j
        /\ Recorded(hooks, i) # {} /\ Recorded(hooks, j) # {}
        /\ Recorded(hooks, i) \cup Recorded(hooks, j) = DOMAIN weechat_hooks
        /\ Armed(State, i, "print_hook")
        /\ Armed(State, j, "expiry_timer")


\* ----------------------------------------------------------------- C20
\* The commands short of tokens that are refused: no token at all, and a
\* download without a choice id.
UsageErrorNoChange ==
    /\ \A b \in BufferAnswers :
          /\ SearchResult(MkArgs(<<>>), b[1], b[2]) = StateWith(b[1], b[2])
          /\ HotResult(MkArgs(<<>>), b[1], b[2]) = StateWith(b[1], b[2])
    /\ \A cb \in BOOLEAN :
          /\ DownloadResult(MkArgs(<<>>), cb) = StateWith(TRUE, cb)
          /\ \A i \in SessionIds :
                DownloadResult(MkArgs(<<i>>), cb) = StateWith(TRUE, cb)

\* C20: a command with a malformed token count (search without a query or
\* without any token, hot without a session id, download without a choice
\* id) changes nothing: no session is created or removed, the lock is as
\* it was, no handle is armed, nothing is written to the channel and no
\* webhook is sent.
C20_MalformedCommandNoChange ==
    /\ UsageErrorNoChange
    /\ \A args \in BareSearchArgs : \A b \in BufferAnswers :
          SearchResult(args, b[1], b[2]) = StateWith(b[1], b[2])


\* ----------------------------------------------------------------- C21
\* The notify calls of webhook_sender, applied to the state st for
\* session i.
NotifyCalls(st, i) ==
    {send_search_results(st, i, "success", <<>>),
     send_search_results(st, i, "no_results", NoneList),
     send_hot_results(st, i, "no_results", NoneStr, NoneList),
     send_download_status(st, i, "success"),
     send_download_status(st, i, "error"),
     send_session_expired(st, i),
     send_rejection(st, i),
     send_error(st, i)}

\* C21: delivery is at most once and never feeds back.  A notify call
\* starts at most one transfer and touches nothing else; when a transfer
\* ends, the completion callback, whatever the return code, leaves the
\* store, the handle table, the armed hooks and the lock as they are,
\* sends nothing and writes nothing to the channel.
C21_DeliveryNeverFeedsBack ==
    /\ \A i \in SessionIds : \A st \in NotifyCalls(State, i) :
          /\ Len(st.webhooks) <= 1
          /\ [st EXCEPT !.webhooks = <<>>, !.transfers = transfers] = State
    /\ \A st \in HttpOutcomes :
          /\ st.sessions = sessions
          /\ st.hooks = hooks
          /\ st.weechat_hooks = weechat_hooks
          /\ st.is_search_active = is_search_active
          /\ st.webhooks = <<>>
          /\ st.channel_out = <<>>

\* The transfer of a success notification has ended: the reported session
\* still waits for its download, expiry timer armed, and no transfer runs.
C21_Witness ==
    \E i \in DOMAIN sessions :
        /\ PendingDownload(sessions, i)
        /\ ExpiryArmed(State, i)
        /\ ~ transfers
        /\ webhooks = <<>>
        /\ loaded


\* ----------------------------------------------------------------- C22
\* The log holds a send of this text, whether it went through or not.
SendAt(log, k, text) ==
    log[k].op \in {"send", "send_failed"} /\ log[k].text = text

\* The operations of a log, in order.
Ops(log) == [k \in 1..Len(log) |-> log[k].op]

\* The frames a call read or tried to read.
Reads(log) == {k \in 1..Len(log) : log[k].op \in {"receive", "receive_failed"}}

\* C22: a relay call does its steps in one order: connect, send handshake,
\* read and discard one frame, send the authentication command, send the
\* target command as an input-to-buffer instruction, send quit, close.
\* The authentication command is never sent before the handshake reply was
\* read, nor the target command before the authentication command.
C22_RelayCallOrder ==
    LET log == relay.log
    IN /\ \A k \in 1..Len(log) :
             /\ SendAt(log, k, AuthCommand(relay)) =>
                   /\ k = 4
                   /\ log[1] = Ev("connect", <<>>)
                   /\ log[2] = Ev("send", <<"handshake">>)
                   /\ log[3].op = "receive"
             /\ SendAt(log, k, TargetCommand(relay)) =>
                   /\ k = 5
                   /\ log[4] = Ev("send", AuthCommand(relay))
             /\ log[k].op = "close" => k = Len(log)
       /\ relay.client = "bot" =>
             /\ \A k \in 1..Len(log) :
                   SendAt(log, k, <<"quit">>) =>
                      k = Len(log) - 1 /\ log[Len(log)].op = "close"
             /\ TargetCommand(relay) =
                   <<"(cmd) input core.weechat ", relay.command>>
             /\ Cardinality(Reads(log)) <= 1
             /\ (relay.pc = "done" /\ relay.exc = "") =>
                   /\ SubSeq(log, 1, 5) =
                         <<Ev("connect", <<>>),
                           Ev("send", <<"handshake">>),
                           log[3],
                           Ev("send", AuthCommand(relay)),
                           Ev("send", TargetCommand(relay))>>
                   /\ Ops(log) \in
                         {<<"connect", "send", "receive", "send", "send",
                            "send", "close">>,
                          <<"connect", "send", "receive", "send", "send",
                            "send_failed", "close">>}
                   /\ log[6].text = <<"quit">>
                   /\ relay.result = NoneList

\* A fire-and-forget call of the bot's client went through to the end.
C22_Witness ==
    /\ relay.pc = "done" /\ relay.client = "bot" /\ relay.exc = ""
    /\ Len(relay.log) = 7
    /\ relay.log[6] = Ev("send", <<"quit">>)
    /\ relay.log[7].op = "close"


\* ----------------------------------------------------------------- C23
\* C23: without a relay password (unset or empty) a relay call raises the
\* configuration error before any I/O: no connection is opened or tried,
\* nothing is sent or read, and the cleanup sends no quit and closes
\* nothing.
C23_MissingCredential ==
    ~ Truthy(relay.password) =>
       /\ relay.pc = "login" =>
             \A ok \in BOOLEAN, quit_ok \in BOOLEAN :
                LET r == login_and_connect(relay, ok)
                IN /\ r.exc = "ValueError" /\ r.pc = "cleanup"
                   /\ r.log = <<>>
                   /\ _close(r, quit_ok) = r
                   /\ _close_earlier(r) = r
       /\ relay.pc \notin {"idle", "login"} =>
             /\ relay.pc \in {"cleanup", "done"}
             /\ relay.exc = "ValueError"
             /\ relay.log = <<>>
             /\ ~ relay.writer /\ relay.transport = "none"

\* A call of the bot's client without password has ended.
C23_Witness ==
    /\ relay.pc = "done" /\ relay.client = "bot"
    /\ relay.password = NoneStr
    /\ relay.exc = "ValueError"
    /\ relay.inbox # <<>>


\* ----------------------------------------------------------------- C24
\* The call read the handshake reply and its compression flag is not 0.
CompressedReply(r) ==
    /\ r.exc = "NotImplementedError"
    /\ Len(r.log) >= 3
    /\ r.log[3].op = "receive_failed"

\* C24: when the handshake reply has a non-zero compression flag, the
\* call fails with the unsupported-compression error, neither the
\* authentication command nor the target command is sent, and the
\* connection is closed all the same.
C24_CompressedHandshake ==
    /\ relay.pc = "receive" =>
          LET got == _receive(relay.inbox)
              r == Goto(receive_frame(relay, FALSE), "send_init")
          IN /\ (Len(relay.inbox) >= 5 /\ unpack_I(relay.inbox) >= 5
                 /\ Len(relay.inbox) >= unpack_I(relay.inbox)
                 /\ relay.inbox[5] # 0)
                   <=> got.error = "NotImplementedError"
             /\ got.error = "NotImplementedError" =>
                   r.exc = "NotImplementedError" /\ r.pc = "cleanup"
    /\ CompressedReply(relay) =>
          /\ relay.pc \in {"cleanup", "done"}
          /\ \A k \in 1..Len(relay.log) :
                /\ ~ SendAt(relay.log, k, AuthCommand(relay))
                /\ ~ SendAt(relay.log, k, TargetCommand(relay))
          /\ relay.pc = "done" =>
                /\ relay.transport = "closed"
                /\ relay.log[Len(relay.log)] = Ev("close", <<>>)
                /\ relay.exc = "NotImplementedError"

\* A call of the bot's client ended on a compressed handshake reply.
C24_Witness ==
    /\ relay.pc = "done" /\ relay.client = "bot"
    /\ CompressedReply(relay)
    /\ Ops(relay.log) =
          <<"connect", "send", "receive_failed", "send", "close">>


\* ----------------------------------------------------------------- C25
\* The bot's client is in, or through, the finally clause of a call that
\* had opened its connection.
BotCallWithConnection(pc) ==
    relay.client = "bot" /\ relay.pc = pc /\ relay.writer

\* C25: on every exit path of a relay call after the connection was
\* opened (normal completion, failed or truncated handshake read,
\* unsupported compression, failed send) the client attempts to send quit
\* and then closes the socket; a failed quit is swallowed and the socket is
\* closed all the same.
C25_QuitThenCloseOnEveryExit ==
    BotCallWithConnection("done") =>
       LET log == relay.log
       IN /\ Len(log) >= 2
          /\ SendAt(log, Len(log) - 1, <<"quit">>)
          /\ log[Len(log)] = Ev("close", <<>>)
          /\ relay.transport = "closed"

\* C25 as the code has it: _close attempts quit and calls close when the
\* writer is not closing, which is so on normal completion, after a
\* truncated or malformed handshake frame and after a compressed one; a
\* failed quit is swallowed and close still runs.  When a send failed or
\* the connection broke during the read, the writer is closing already
\* and _close sends nothing and calls nothing.  In no case does the close
\* step raise or replace what the call raises, and no connection is left
\* open.
C25_QuitThenCloseUnlessLost ==
    /\ BotCallWithConnection("cleanup") =>
          /\ relay.transport \in {"open", "lost"}
          /\ relay.transport = "lost" <=> relay.exc = "ConnectionResetError"
          /\ relay.transport = "lost" =>
                relay.log[Len(relay.log)].op \in {"send_failed", "receive_failed"}
          /\ \A quit_ok \in BOOLEAN :
                LET r == _close(relay, quit_ok)
                IN /\ r.exc = relay.exc
                   /\ IF relay.transport = "open"
                      THEN /\ r.transport = "closed"
                           /\ r.log = relay.log \o
                                <<Ev(IF quit_ok THEN "send" ELSE "send_failed",
                                     <<"quit">>),
                                  Ev("close", <<>>)>>
                      ELSE r = relay
    /\ BotCallWithConnection("done") =>
          /\ relay.transport \in {"closed", "lost"}
          /\ relay.transport = "closed" =>
                /\ SendAt(relay.log, Len(relay.log) - 1, <<"quit">>)
                /\ relay.log[Len(relay.log)] = Ev("close", <<>>)
          /\ relay.transport = "lost" =>
                \A k \in 1..Len(relay.log) :
                   relay.log[k].op # "close" /\ relay.log[k].text # <<"quit">>

\* The stream ended inside the handshake frame, the quit could not be
\* sent either, and the socket was closed.
C25_Witness ==
    /\ BotCallWithConnection("done")
    /\ relay.exc = "IncompleteReadError"
    /\ Ops(relay.log) =
          <<"connect", "send", "receive_failed", "send_failed", "close">>
    /\ relay.transport = "closed"


\* ----------------------------------------------------------------- C26
\* C26: a fire-and-forget call reads no frame after its target command:
\* the handshake reply is the only frame read in the whole call and nothing
\* is returned.  A call with response reads exactly one further frame
\* after the command, consuming that frame and no byte more, and returns
\* its payload (decoded, surrounding whitespace removed).
C26_FramesReadPerMode ==
    LET log == relay.log
    IN /\ relay.mode = "fire_and_forget" =>
             /\ Reads(log) \subseteq {3}
             /\ relay.pc # "receive_response"
             /\ relay.result = NoneList
             /\ (Len(log) >= 5 /\ SendAt(log, 5, TargetCommand(relay))) =>
                   /\ Reads(log) = {3}
                   /\ relay.pc \in {"cleanup", "done"}
       /\ relay.mode = "with_response" =>
             /\ Reads(log) \subseteq {3, 6}
             /\ 6 \in Reads(log) => log[5] = Ev("send", TargetCommand(relay))
             /\ relay.pc = "receive_response" =>
                   /\ Reads(log) = {3}
                   /\ LET r == receive_frame(relay, FALSE)
                          n == unpack_I(relay.inbox)
                      IN r.exc = "" =>
                            /\ r.result =
                                  strip(decode_ignore(SubSeq(relay.inbox, 6, n)))
                            /\ r.inbox =
                                  SubSeq(relay.inbox, n + 1, Len(relay.inbox))
                            /\ r.log = Append(log, Ev("receive", r.result))
             /\ (relay.pc = "done" /\ relay.exc = "") =>
                   /\ Reads(log) = {3, 6}
                   /\ log[6] = Ev("receive", relay.result)

\* A call with response returned the payload of the second frame and left
\* the third frame unread.
C26_Witness ==
    /\ relay.pc = "done" /\ relay.mode = "with_response" /\ relay.exc = ""
    /\ relay.result = PayloadHi
    /\ relay.inbox = Frame(0, PayloadOk)


\* ----------------------------------------------------------------- C27
\* The line has none of the shapes that handle_print_callback looks for
\* in a session of this type.
Irrelevant(type, line) ==
    IF type = "search"
    THEN parse_search_result_line(line) = None
         /\ ~ is_end_of_search_results(line)
    ELSE parse_hot_header_line(line) = NoneStr
         /\ parse_hot_item_line(line) = None

\* C27: a line that matches none of the shapes relevant to the session's
\* kind changes nothing: no record or hot item is appended, the hot
\* summary stays, no timer is armed, cancelled or re-armed, the print hook
\* stays and the lock is as it was.
C27_IrrelevantLineIgnored ==
    \A p \in PrintHookPtrs(State) :
        LET i == weechat_hooks[p].data
        IN i \in DOMAIN sessions =>
              \A line \in Lines :
                 Irrelevant(sessions[i].type, line) =>
                    handle_print_callback(State, i, line) = State

\* A hot session that has matched nothing yet got a line: its completion
\* timer has run down by a tick and was not armed again.
C27_Witness ==
    \E i \in DOMAIN sessions :
        /\ sessions[i].type = "hot"
        /\ sessions[i].hot_items = <<>> /\ sessions[i].hot_summary = ""
        /\ Armed(State, i, "print_hook")
        /\ Armed(State, i, "completion_timer")
        /\ weechat_hooks[hooks[i]["completion_timer"]].remaining < HotDelay
        /\ stream_budget < MaxLines


\* ----------------------------------------------------------------- C28
\* The outcome st of an accepted creation command for session i wrote its
\* one command when the lock was held, the session stored and its print
\* hook armed.
WrittenAfterSubscription(st, i) ==
    /\ Len(st.channel_out) = 1 /\ Len(st.written_when) = 1
    /\ st.written_when[1].is_search_active
    /\ i \in st.written_when[1].sessions
    /\ Armed(st, i, "print_hook")
    /\ st.hooks[i]["print_hook"] \in st.written_when[1].armed
    /\ st.is_search_active /\ i \in DOMAIN st.sessions

\* C28: an accepted creation command takes the lock, stores the session,
\* arms the print hook and only then writes the query (search) or the
\* listing command (hot) to the channel, so that no answer can arrive
\* while the session has no subscription; for a hot session the completion
\* timer is armed in the same step.
C28_SubscriptionBeforeCommand ==
    /\ \A a \in {x \in SearchArgs : CmdEnabled(x)} :
          \A b \in CreationLookups(a) :
             LET st == SearchResult(a, b[1], b[2])
             IN st.channel_out # <<>> =>
                   /\ WrittenAfterSubscription(st, a.tokens[1])
                   /\ st.channel_out = << <<"!search">> \o Tail(a.tokens) >>
    /\ \A a \in {x \in HotArgs : CmdEnabled(x)} :
          \A b \in CreationLookups(a) :
             LET st == HotResult(a, b[1], b[2])
             IN st.channel_out # <<>> =>
                   /\ WrittenAfterSubscription(st, a.tokens[1])
                   /\ st.channel_out = << <<"!hot">> >>
                   /\ Armed(st, a.tokens[1], "completion_timer")
                   /\ st.weechat_hooks[st.hooks[a.tokens[1]]["completion_timer"]]
                         .remaining = HotDelay
    /\ \A st \in SearchOutcomes \cup HotOutcomes :
          (st.sessions # sessions \/ st.is_search_active # is_search_active)
             => st.channel_out # <<>>

\* A hot command was just accepted: the listing command is out and the
\* session has its print hook and its completion timer.
C28_Witness ==
    \E i \in DOMAIN sessions :
        /\ sessions[i].type = "hot"
        /\ channel_out = << <<"!hot">> >>
        /\ is_search_active
        /\ Armed(State, i, "print_hook")
        /\ Armed(State, i, "completion_timer")


\* ----------------------------------------------------------------- C29
\* What a handler sends when it takes a session of the given type out of
\* the store.
RemovalNotices(type, i) ==
    IF type = "hot"
    THEN {<<HotNoResults(i)>>}
         \cup {<<HotSuccess(i, s, items)>> :
                  s \in {"", HeaderText}, items \in {sessions[i].hot_items}}
    ELSE {<<SearchNoResults(i)>>, <<DownloadSuccess(i)>>, <<Expired(i)>>}

\* A handler that takes a session out of the store sends one of the
\* notices above.
RemovedWithNotice ==
    \A st \in Outcomes : \A i \in DOMAIN sessions \ DOMAIN st.sessions :
        st.webhooks \in RemovalNotices(sessions[i].type, i)

\* Every session of the store has the timer that removes it: a search
\* session its expiry timer, a hot session its completion timer.
RemovingTimerArmed ==
    \A i \in DOMAIN sessions :
        \E p \in DOMAIN weechat_hooks :
            /\ weechat_hooks[p].type = "timer"
            /\ weechat_hooks[p].data = i
            /\ weechat_hooks[p].callback =
                  IF sessions[i].type = "hot"
                  THEN "global_final_processing_cb"
                  ELSE "global_expiry_cb"

\* The callback of such a timer, once due, takes its session out.
DueTimerRemoves ==
    \A p \in DueExpiryTimers \cup DueFinalTimers("hot") :
        weechat_hooks[p].data \notin DOMAIN FireTimerResult(p).sessions

InFlight == {i \in DOMAIN sessions : Unfinalized(sessions, i)}

\* A creation command that can run now and is answered rejected_busy.
BusyRejections ==
    {st \in SearchOutcomes \cup HotOutcomes :
        \E i \in SessionIds : st.webhooks = <<Rejected(i)>>}

\* The part of C30 that holds: an un-finalized session holds the lock, and
\* a busy rejection is given exactly when the lock is held.
InFlightHoldsLock ==
    /\ InFlight # {} => is_search_active
    /\ BusyRejections # {} => is_search_active
    /\ \A st \in BusyRejections :
          /\ st.sessions = sessions
          /\ st.is_search_active

\* C30: whenever the lock is held the store has exactly one session that
\* is accepted and not yet finalized, so no creation command is rejected
\* as busy while no session is in flight.
C30_LockMeansOneInFlight ==
    /\ is_search_active => Cardinality(InFlight) = 1
    /\ BusyRejections # {} => InFlight # {}


\* ----------------------------------------------------------------- C31
\* The timers armed in WeeChat for session i.
TimersOf(st, i) ==
    {p \in DOMAIN st.weechat_hooks :
        st.weechat_hooks[p].type = "timer" /\ st.weechat_hooks[p].data = i}

\* The lines that have the header shape and the item shape at once.
DualLines ==
    {line \in Lines :
        parse_hot_header_line(line) # NoneStr /\ parse_hot_item_line(line) # None}

Replacements ==
    IF loaded /\ ~ is_search_active
    THEN {<<a.tokens[1], SearchResult(a, TRUE, TRUE)>> :
             a \in LiveIdArgs(SearchArgs)}
         \cup {<<a.tokens[1], HotResult(a, TRUE, TRUE)>> :
                  a \in LiveIdArgs(HotArgs)}
    ELSE {}

\* The hooks armed in WeeChat for session i that the handle table does
\* not record under i.
Orphans(st, i) ==
    {p \in DOMAIN st.weechat_hooks :
        /\ st.weechat_hooks[p].data = i
        /\ (i \notin DOMAIN st.hooks \/ p \notin Recorded(st.hooks, i))}

\* C32: a creation command that names a live session ends that session
\* first, unhooking all its handles: once the new session is created no
\* hook of the replaced one is armed, so none can fire against the new
\* session later.
C32_ReplacedSessionUnhooked ==
    /\ \A r \in Replacements : Orphans(r[2], r[1]) = {}
    /\ \A i \in SessionIds : Orphans(State, i) = {}


\* ----------------------------------------------------------------- C33
\* Session b is in outcome st exactly as it is now: its record, its
\* handles and the hooks armed for it.
SameSession(st, b) ==
    /\ b \in DOMAIN st.sessions /\ st.sessions[b] = sessions[b]
    /\ b \in DOMAIN st.hooks /\ st.hooks[b] = hooks[b]
    /\ \A p \in DOMAIN weechat_hooks \cup DOMAIN st.weechat_hooks :
          (p[1] = b) =>
             /\ p \in DOMAIN weechat_hooks /\ p \in DOMAIN st.weechat_hooks
             /\ st.weechat_hooks[p] = weechat_hooks[p]

\* What a download command for session a, or the expiry of a, can yield
\* now.
TerminationsOf(a) ==
    {DownloadResult(MkArgs(<<a, c>>), cb) : c \in ChoiceTokens, cb \in BOOLEAN}
    \cup {FireTimerResult(p) :
             p \in {q \in DueExpiryTimers : weechat_hooks[q].data = a}}

\* C33: while session b is collecting, a download for another session a
\* that awaits its download, valid or not, and the expiry of a leave the
\* lock held and leave b as it is: its records, its print hook and its
\* timers.
C33_OtherSessionUntouched ==
    \A b \in InFlight : \A a \in DOMAIN sessions \ {b} :
        PendingDownload(sessions, a) =>
           \A st \in TerminationsOf(a) :
              /\ is_search_active /\ st.is_search_active
              /\ SameSession(st, b)

\* A download for one session succeeded while another was collecting.
C33_Witness ==
    \E a \in SessionIds, b \in InFlight :
        /\ a # b /\ a \notin DOMAIN sessions
        /\ webhooks = <<DownloadSuccess(a)>>
        /\ is_search_active
        /\ Armed(State, b, "print_hook")


\* ----------------------------------------------------------------- C34
\* C34: a download command for a session that is still collecting (a
\* search session without choices yet, or a hot session) yields the state
\* as it is plus one download_status error: no directive is written, and
\* the session's records or hot items, its print hook, its timers and the
\* lock are as they were, so the session finalizes as it would have.
C34_DownloadWhileCollecting ==
    \A b \in InFlight : \A c \in ChoiceTokens : \A cb \in BOOLEAN :
        LET st == DownloadResult(MkArgs(<<b, c>>), cb)
        IN /\ st = send_download_status(StateWith(TRUE, cb), b, "error")
           /\ st.webhooks = <<DownloadError(b)>>
           /\ st.channel_out = <<>>
           /\ st.is_search_active = is_search_active
           /\ SameSession(st, b)

\* A search session that has a record and is still subscribed was just
\* refused a download.
C34_Witness ==
    \E b \in InFlight :
        /\ sessions[b].type = "search"
        /\ sessions[b].search_results # <<>>
        /\ webhooks = <<DownloadError(b)>>
        /\ Armed(State, b, "print_hook")
        /\ Armed(State, b, "expiry_timer")
        /\ is_search_active


\* ----------------------------------------------------------------- C35
\* The choice ids are 1..n in order and no filename is listed twice.
ChoicesWellFormed(choices) ==
    /\ \A k \in 1..Len(choices) : choices[k].choice_id = k
    /\ \A j \in 1..Len(choices), k \in 1..Len(choices) :
          choices[j].filename = choices[k].filename => j = k

\* The two record lists hold the same records as many times each.
SameRecords(rs, ts) ==
    /\ Len(rs) = Len(ts)
    /\ \A r \in SearchRecords : Count(rs, r) = Count(ts, r)

\* No timer that would run handle_final_processing, and with it
\* generate_choices, is armed for session i.
NoFinalTimer(i) ==
    \A p \in DOMAIN weechat_hooks :
        weechat_hooks[p].data = i =>
           weechat_hooks[p].callback # "global_final_processing_cb"

\* C35: from its finalization to its end a search session keeps its
\* choices: generate_choices cannot run a second time, the choice ids are
\* 1..n with pairwise distinct filenames, and no handler, download
\* attempts included, changes the choices or the records the list holds.
C35_ChoicesFixedOnceGenerated ==
    /\ \A i \in DOMAIN sessions :
          PendingDownload(sessions, i) =>
             /\ ChoicesWellFormed(sessions[i].choices)
             /\ NoFinalTimer(i)
    /\ \A st \in Outcomes : \A i \in DOMAIN sessions \cap DOMAIN st.sessions :
          PendingDownload(sessions, i) =>
             /\ st.sessions[i].choices = sessions[i].choices
             /\ SameRecords(st.sessions[i].search_results,
                            sessions[i].search_results)

\* A session with two choices was refused a download and is still in the
\* store.
C35_Witness ==
    \E i \in DOMAIN sessions :
        /\ PendingDownload(sessions, i)
        /\ Len(sessions[i].choices) = 2
        /\ webhooks = <<DownloadError(i)>>


\* ----------------------------------------------------------------- C36
\* The choice of session s that token c names and what get_download_command
\* returns for it come from the record at position Best of the list rs:
\* the size shown, the filename and the directive.
SameRecordAsChoice(s, c, rs) ==
    LET choice == s.choices[ParseInt(c)]
        got == get_download_command(s, c)
        r == rs[Best(rs, choice.filename)]
    IN /\ got.filename = choice.filename /\ r.filename = choice.filename
       /\ choice.size = r.size
       /\ got.command = r.command

\* The choice tokens that name one of the given choices.
TokensOf(choices) == {c \in ChoiceTokens : ParseInt(c) \in 1..Len(choices)}

\* C36: curation and download resolution agree.  When the settle timer of
\* a collected session is due, the choices generate_choices makes of the
\* records and the directive get_download_command then returns for each
\* choice id come from the same record, the one of most grabs with the
\* filename and the earliest-arrived of them when several have as many;
\* the same holds of the stored list for as long as the session waits.
C36_CurationAgreesWithDownload ==
    /\ \A p \in DueFinalTimers("search") :
          LET i == weechat_hooks[p].data
              s == generate_choices(sessions[i])
          IN sessions[i].choices = <<>> =>
                \A c \in TokensOf(s.choices) :
                   SameRecordAsChoice(s, c, sessions[i].search_results)
    /\ \A i \in DOMAIN sessions :
          PendingDownload(sessions, i) =>
             \A c \in TokensOf(sessions[i].choices) :
                SameRecordAsChoice(sessions[i], c, sessions[i].search_results)

\* Two records of the same filename and as many grabs arrived, R6 before
\* R1: the choice shows the size of R6 and the download resolves to the
\* directive of R6.
C36_Witness ==
    /\ "s1" \in DOMAIN sessions
    /\ sessions["s1"].search_results = <<R6, R1>>
    /\ sessions["s1"].choices =
          <<[choice_id |-> 1, filename |-> "A", size |-> "800M"]>>
    /\ get_download_command(sessions["s1"], "1").command = R6.command


\* ----------------------------------------------------------------- C37
\* C37: SessionManager.shutdown, run in any state the loaded script can be
\* in, leaves the store and the handle table empty, no timer and no print
\* hook armed and the lock free, and sends no notification and writes
\* nothing to the channel for the sessions it ends.
C37_ShutdownClearsEverything ==
    loaded =>
       LET st == shutdown(State)
       IN /\ st.sessions = EmptyDict
          /\ st.hooks = EmptyDict
          /\ st.weechat_hooks = EmptyDict
          /\ ~ st.is_search_active
          /\ st.webhooks = <<>>
          /\ st.channel_out = <<>>

\* The script can be unloaded while one session collects with the lock
\* held and another waits for its download, both with hooks armed, and
\* shutdown then leaves nothing.
C37_Witness ==
    /\ loaded /\ is_search_active
    /\ \E a \in DOMAIN sessions, b \in DOMAIN sessions :
          /\ PendingDownload(sessions, a) /\ Unfinalized(sessions, b)
          /\ Armed(State, a, "expiry_timer")
          /\ Armed(State, b, "print_hook")
    /\ shutdown(State).sessions = EmptyDict
    /\ shutdown(State).weechat_hooks = EmptyDict
    /\ ~ shutdown(State).is_search_active


\* ----------------------------------------------------------------- C38
\* The client is about to read a frame.
AboutToReceive == relay.pc \in {"receive", "receive_response"}

\* C38: the frame reader takes the first four bytes as the big-endian
\* total length n, which counts the prefix, and consumes exactly n - 4
\* bytes after them: the first is the compression flag, the others are
\* the payload, returned decoded and stripped when the flag is 0; what
\* follows the frame stays in the stream.  When the stream ends inside the
\* prefix or inside the frame the read fails with the error of an
\* incomplete read and returns no payload.
C38_FrameReader ==
    AboutToReceive =>
       LET s == relay.inbox
           r == receive_frame(relay, FALSE)
           n == unpack_I(s)
       IN IF Len(s) < 4 \/ (n >= 4 /\ Len(s) < n)
          THEN /\ r.exc = "IncompleteReadError"
               /\ r.result = relay.result
               /\ r.log = Append(relay.log, Ev("receive_failed", <<>>))
          ELSE n >= 5 =>
                 /\ r.inbox = SubSeq(s, n + 1, Len(s))
                 /\ IF s[5] = 0
                    THEN /\ r.exc = relay.exc
                         /\ r.result = strip(decode_ignore(SubSeq(s, 6, n)))
                    ELSE /\ r.exc = "NotImplementedError"
                         /\ r.result = relay.result

\* A call with response read the handshake frame whole and then found the
\* stream ending inside the second frame: it raised and returned nothing.
C38_Witness ==
    /\ relay.pc = "done" /\ relay.mode = "with_response"
    /\ relay.exc = "IncompleteReadError"
    /\ relay.result = NoneList
    /\ \E k \in 1..Len(relay.log) :
          /\ relay.log[k] = Ev("receive", PayloadHi)
          /\ k < Len(relay.log)
          /\ \E j \in (k + 1)..Len(relay.log) :
                relay.log[j].op = "receive_failed"


\* ----------------------------------------------------------------- C39
\* C39: the search and hot handlers of the bot put the session id in
\* ACTIVE_SESSIONS before the command is injected through the relay and
\* take it out again when the injection raises: as long as the target
\* command has not been written the id is registered, no webhook is ever
\* handled for an id that was not registered yet, and a handler whose
\* relay call raised leaves no entry of its id.
C39_RegisteredBeforeInjection ==
    /\ (bot.pc = "calling" /\ ~ Injected) =>
          /\ bot.session_id \in DOMAIN bot.ACTIVE_SESSIONS
          /\ bot.session_id \notin DOMAIN ReceivedByWeeChat
    /\ \A k \in 1..Len(bot.handled) : bot.handled[k].registered
    /\ DOMAIN ReceivedByWeeChat \subseteq bot.registered
    /\ (bot.pc = "idle" /\ bot.session_id # NoneStr /\ relay.exc # "") =>
          bot.session_id \notin DOMAIN bot.ACTIVE_SESSIONS

\* The write of the target command raised: the handler has returned and
\* its id, registered before the call, is not in ACTIVE_SESSIONS.
C39_Witness ==
    /\ bot.pc = "idle" /\ relay.pc = "done"
    /\ relay.exc = "ConnectionResetError"
    /\ relay.log[Len(relay.log)] = Ev("send_failed", TargetCommand(relay))
    /\ bot.session_id \in bot.registered
    /\ bot.session_id \notin DOMAIN bot.ACTIVE_SESSIONS
    /\ bot.handled = <<>>

====
